---- MODULE Spec2Model ----
(***************************************************************************)
(* Model of the sheet-to-database synchronisation pipeline of the          *)
(* budgeting application (backend/sync/data_sync.py, backend/sync/         *)
(* Expenses.py, backend/db/database.py, backend/db/models.py).             *)
(*                                                                         *)
(* Text is modelled as a sequence of one-character strings, so that the    *)
(* substring tests, splits, replacements and strptime parses of the code   *)
(* are computed character by character as Python computes them.            *)
(***************************************************************************)
EXTENDS Integers, Sequences, FiniteSets, TLC

(***************************************************************************)
(* Python str primitives                                                   *)
(***************************************************************************)

\* Python: sub in s
Contains(sub, s) ==
    \E i \in 0..(Len(s) - Len(sub)) : SubSeq(s, i + 1, i + Len(sub)) = sub

\* index (1-based) of the first occurrence of sub in s at or after position from, 0 if none
FindFrom(sub, s, from) ==
    LET hits == {i \in from..(Len(s) - Len(sub) + 1) : SubSeq(s, i, i + Len(sub) - 1) = sub}
    IN  IF hits = {} THEN 0 ELSE CHOOSE i \in hits : \A j \in hits : i <= j

RECURSIVE SplitFrom(_, _, _)
\* s[from..] split at the occurrences of sep, the first of them at k (0: none)
SplitAt(s, sep, from, k) ==
    IF k = 0 THEN <<SubSeq(s, from, Len(s))>>
    ELSE <<SubSeq(s, from, k - 1)>> \o SplitFrom(s, sep, k + Len(sep))

SplitFrom(s, sep, from) == SplitAt(s, sep, from, FindFrom(sep, s, from))

\* Python: s.split(sep), sep a non-empty text
Split(s, sep) == SplitFrom(s, sep, 1)

RECURSIVE ReplaceFrom(_, _, _, _)
ReplaceAt(s, old, new, from, k) ==
    IF k = 0 THEN SubSeq(s, from, Len(s))
    ELSE SubSeq(s, from, k - 1) \o new \o ReplaceFrom(s, old, new, k + Len(old))

ReplaceFrom(s, old, new, from) == ReplaceAt(s, old, new, from, FindFrom(old, s, from))

\* Python: s.replace(old, new), old a non-empty text
Replace(s, old, new) == ReplaceFrom(s, old, new, 1)

RECURSIVE Join(_, _)
\* Python: sep.join(parts)
Join(parts, sep) ==
    IF Len(parts) = 0 THEN <<>>
    ELSE IF Len(parts) = 1 THEN parts[1]
    ELSE parts[1] \o sep \o Join(Tail(parts), sep)

DigitChars == <<"0", "1", "2", "3", "4", "5", "6", "7", "8", "9">>

IsDigit(c) == \E i \in 1..10 : DigitChars[i] = c

DigitVal(c) == (CHOOSE i \in 1..10 : DigitChars[i] = c) - 1

IsDigits(s) == Len(s) > 0 /\ \A i \in 1..Len(s) : IsDigit(s[i])

RECURSIVE ToInt(_)
\* value of a text of decimal digits
ToInt(s) ==
    IF Len(s) = 0 THEN 0
    ELSE 10 * ToInt(SubSeq(s, 1, Len(s) - 1)) + DigitVal(s[Len(s)])

RECURSIVE NatToText(_)
\* Python: f"{n}" for n >= 0
NatToText(n) ==
    IF n < 10 THEN <<DigitChars[n + 1]>>
    ELSE NatToText(n \div 10) \o <<DigitChars[(n % 10) + 1]>>

\* Python: f"{n}" for an int
IntToText(n) == IF n < 0 THEN <<"-">> \o NatToText(0 - n) ELSE NatToText(n)

RECURSIVE ZeroPad(_, _)
ZeroPad(s, width) == IF Len(s) >= width THEN s ELSE ZeroPad(<<"0">> \o s, width)

(***************************************************************************)
(* Calendar dates (datetime.date) and strptime                             *)
(***************************************************************************)

\* A call either returns a value or raises: [err |-> "", val |-> v] is a return,
\* [err |-> "ValueError", ...] a raised exception.
Ok(v) == [err |-> "", val |-> v]

Raise(e) == [err |-> e, val |-> <<>>]

IsOk(r) == r.err = ""

\* Python Optional: None is <<>>, a value x is <<x>>
None == <<>>

Some(x) == <<x>>

MkDate(y, m, d) == [year |-> y, month |-> m, day |-> d]

IsLeap(y) == (y % 4 = 0 /\ y % 100 # 0) \/ y % 400 = 0

DaysInMonth(y, m) ==
    IF m = 2 THEN (IF IsLeap(y) THEN 29 ELSE 28)
    ELSE IF m \in {4, 6, 9, 11} THEN 30 ELSE 31

\* Python: a <= b on dates
DateLE(a, b) ==
    \/ a.year < b.year
    \/ a.year = b.year /\ a.month < b.month
    \/ a.year = b.year /\ a.month = b.month /\ a.day <= b.day

\* Python: str(d) / f"{d}" of a date, ISO format YYYY-MM-DD
DateToText(d) ==
    ZeroPad(NatToText(d.year), 4) \o <<"-">> \o ZeroPad(NatToText(d.month), 2)
        \o <<"-">> \o ZeroPad(NatToText(d.day), 2)

\* datetime.strptime(s, "%m/%d/%Y") when fourDigit, "%m/%d/%y" otherwise:
\* %m is one or two digits 1..12, %d one or two digits 1..31, %Y exactly four
\* digits, %y exactly two digits (00..68 -> 20xx, 69..99 -> 19xx); the day
\* must exist in the month.  %d also accepts a space before a single digit.
DateOf(y, m, d) ==
    IF m < 1 \/ m > 12 \/ y < 1 THEN Raise("ValueError")
    ELSE IF d < 1 \/ d > DaysInMonth(y, m) THEN Raise("ValueError")
    ELSE Ok(MkDate(y, m, d))

\* the century rule of %y
Century(yy) == IF yy < 69 THEN 2000 + yy ELSE 1900 + yy

\* the month, day and year fields mm, dd, yy of the text, dd without its leading space
StrptimeFields(mm, dd, yy, fourDigit) ==
    IF ~(IsDigits(mm) /\ IsDigits(dd) /\ IsDigits(yy)) THEN Raise("ValueError")
    ELSE IF Len(mm) > 2 \/ Len(dd) > 2 THEN Raise("ValueError")
    ELSE IF Len(yy) # (IF fourDigit THEN 4 ELSE 2) THEN Raise("ValueError")
    ELSE DateOf(IF fourDigit THEN ToInt(yy) ELSE Century(ToInt(yy)), ToInt(mm), ToInt(dd))

StrptimeParts(p, fourDigit) ==
    IF Len(p) # 3 THEN Raise("ValueError")
    ELSE StrptimeFields(p[1],
                        IF Len(p[2]) = 2 /\ p[2][1] = " " THEN Tail(p[2]) ELSE p[2],
                        p[3], fourDigit)

Strptime(s, fourDigit) == StrptimeParts(Split(s, <<"/">>), fourDigit)

(***************************************************************************)
(* Text literals of the code                                               *)
(***************************************************************************)

T_Spending == <<"S", "p", "e", "n", "d", "i", "n", "g">>

T_SpendingSp == <<"S", "p", "e", "n", "d", "i", "n", "g", " ">>

T_Trip == <<"T", "r", "i", "p">>

\* config.py: SPENDING_RANGE_KEY and TRIP_SPENDING_RANGE_KEY are the same text
SPENDING_RANGE_KEY == <<"A", "1", ":", "E">>

TOTALS_RANGE_KEY == <<"F", "2", ":", "I", "9">>

TRIP_SPENDING_RANGE_KEY == <<"A", "1", ":", "E">>

TRIP_TOTALS_RANGE_KEY == <<"F", "2", ":", "G", "8">>

(***************************************************************************)
(* Value parsers (data_sync.py)                                            *)
(***************************************************************************)

\* parse_date: four-digit year first, two-digit year on ValueError
OrElse(first, second) == IF IsOk(first) THEN first ELSE second

parse_date(date_string) == OrElse(Strptime(date_string, TRUE), Strptime(date_string, FALSE))

RECURSIVE Normalise(_, _)
\* a decimal number n / 10^e in lowest form, so that equal numbers are equal values
Normalise(n, e) ==
    IF e > 0 /\ n % 10 = 0 THEN Normalise(n \div 10, e - 1) ELSE [n |-> n, e |-> e]

\* Python float(t) for a text over the characters + - . 0-9: an optional sign,
\* digits with at most one point, at least one digit; anything else raises
Signed(t) == Len(t) > 0 /\ t[1] \in {"+", "-"}

\* the number with integer digits ip and fraction digits fp, negated when neg
FloatOf(neg, ip, fp, mag) ==
    IF ~IsDigits(ip \o fp) THEN Raise("ValueError")
    ELSE Ok(Normalise(IF neg THEN 0 - mag ELSE mag, Len(fp)))

FloatParts(neg, parts) ==
    IF Len(parts) > 2 THEN Raise("ValueError")
    ELSE IF Len(parts) = 2 THEN FloatOf(neg, parts[1], parts[2], ToInt(parts[1] \o parts[2]))
    ELSE FloatOf(neg, parts[1], <<>>, ToInt(parts[1]))

ParseFloat(t) ==
    FloatParts(Signed(t) /\ t[1] = "-", Split(IF Signed(t) THEN Tail(t) ELSE t, <<".">>))

\* parse_amount: drop "$" and ",", then float()
parse_amount(amount_str) ==
    ParseFloat(Replace(Replace(amount_str, <<"$">>, <<>>), <<",">>, <<>>))

\* parse_percentage: drop "%", float(), divide by 100
DivideBy100(f) == IF IsOk(f) THEN Ok(Normalise(f.val.n, f.val.e + 2)) ELSE f

parse_percentage(percent_str) == DivideBy100(ParseFloat(Replace(percent_str, <<"%">>, <<>>)))

\* extract_date_from_sheet_name: drop "Spending ", prefix "1/", parse_date
extract_date_from_sheet_name(sheet_name) ==
    parse_date(<<"1", "/">> \o Replace(sheet_name, T_SpendingSp, <<>>))

is_date_string_date_range(date_str) == Contains(<<"-">>, date_str)

(***************************************************************************)
(* Identifier generator (db/models.py).  The md5 digest of a text is       *)
(* modelled by the text itself: equal texts give equal ids, different      *)
(* texts different ids.                                                    *)
(***************************************************************************)

generate_purchase_id(sheet_name, row_index) ==
    sheet_name \o <<"_">> \o IntToText(row_index)

generate_trip_id(name, start_date, end_date) ==
    name \o <<"_">> \o DateToText(start_date) \o <<"_">> \o DateToText(end_date)

\* trip_name is an Optional text; "if trip_name" is false for None and for ""
generate_total_id(sheet_name, total_type, trip_name) ==
    IF trip_name # None /\ trip_name[1] # <<>>
    THEN sheet_name \o <<"_">> \o total_type \o <<"_">> \o trip_name[1]
    ELSE sheet_name \o <<"_">> \o total_type

(***************************************************************************)
(* Expenses (sync/Expenses.py) and the spreadsheet source.                 *)
(* A spreadsheet is a function from sheet title to its two cell blocks:    *)
(* [spending |-> rows of columns A..E, totals |-> rows of the block at F2].*)
(* A row is a sequence of cell texts.                                      *)
(***************************************************************************)

\* config.py: column indices of a spending row (0-based, as in Python)
DATE_IDX == 0

AMOUNT_IDX == 1

CATEGORY_IDX == 2

DESCRIPTION_IDX == 3

COMMENT_IDX == 4

\* Python d[idx] on a list: 0-based; idx >= len(d) raises IndexError
HasCell(d, idx) == idx < Len(d)

Cell(d, idx) == d[idx + 1]

\* config.py: DEFAULT_NA = 0.0
DEFAULT_NA == [n |-> 0, e |-> 0]

\* Expenses.get_sheet_name_from_range: range.split('!')[0]
get_sheet_name_from_range(range) == Split(range, <<"!">>)[1]

\* the first maxRows rows of a block, each cut to its first maxCols cells
Window(rows, maxRows, maxCols) ==
    [i \in 1..(IF Len(rows) < maxRows THEN Len(rows) ELSE maxRows) |->
        SubSeq(rows[i], 1, IF Len(rows[i]) < maxCols THEN Len(rows[i]) ELSE maxCols)]

\* spreadsheets().values().get(range).execute().get("values", []): the cells of
\* an A1 range; F2:I9 is 8 rows of 4 columns, F2:G8 its first 7 rows and 2 columns
CellsOf(grid, sheet, key) ==
    IF sheet \notin DOMAIN grid THEN Raise("HttpError")
    ELSE IF key = SPENDING_RANGE_KEY THEN Ok(Window(grid[sheet].spending, Len(grid[sheet].spending), 5))
    ELSE IF key = TOTALS_RANGE_KEY THEN Ok(Window(grid[sheet].totals, 8, 4))
    ELSE IF key = TRIP_TOTALS_RANGE_KEY THEN Ok(Window(grid[sheet].totals, 7, 2))
    ELSE Raise("HttpError")

\* the texts of a range before and after its "!"
RangeSheet(parts) == parts[1]

RangeKey(parts) == IF Len(parts) > 1 THEN parts[2] ELSE <<>>

FetchParts(grid, parts) == CellsOf(grid, RangeSheet(parts), RangeKey(parts))

FetchValues(grid, range) == FetchParts(grid, Split(range, <<"!">>))

\* Expenses.get_data: None when the range has no values, else the one-entry
\* dict {sheet name: values}, modelled as <<[key, value]>>; API errors re-raised
DataOf(range, values) ==
    IF ~IsOk(values) THEN values
    ELSE IF values.val = <<>> THEN Ok(None)
    ELSE Ok(Some(<<[key |-> get_sheet_name_from_range(range), value |-> values.val]>>))

get_data(grid, range) == DataOf(range, FetchValues(grid, range))

\* in_range of construct_ranges: the decimal literal of some month of the window
\* occurs in the sheet title
in_range(sheet, start_month, end_month) ==
    \E month \in start_month..end_month : Contains(IntToText(month), sheet)

\* the text f"{s}!{key}"
RangeOf(s, key) == s \o <<"!">> \o key

\* Expenses.construct_ranges lines 128-152: the selected sheets and their four range lists
selected_ranges(sheets, start_month, end_month) ==
    LET in_range_sheets == SelectSeq(sheets, LAMBDA s : in_range(s, start_month, end_month))
        spending_sheets == SelectSeq(in_range_sheets, LAMBDA s : Contains(T_Spending, s))
        trip_sheets     == SelectSeq(in_range_sheets, LAMBDA s : Contains(T_Trip, s))
    IN  Ok([spending_ranges      |-> [i \in DOMAIN spending_sheets |-> RangeOf(spending_sheets[i], SPENDING_RANGE_KEY)],
            totals_ranges        |-> [i \in DOMAIN spending_sheets |-> RangeOf(spending_sheets[i], TOTALS_RANGE_KEY)],
            trip_spending_ranges |-> [i \in DOMAIN trip_sheets |-> RangeOf(trip_sheets[i], TRIP_SPENDING_RANGE_KEY)],
            trip_totals_ranges   |-> [i \in DOMAIN trip_sheets |-> RangeOf(trip_sheets[i], TRIP_TOTALS_RANGE_KEY)]])

\* Expenses.construct_ranges: lines 121-126 validate the bounds, then the selection
construct_ranges(sheets, start_month, end_month) ==
    IF ~(1 <= start_month /\ start_month <= 12) THEN Raise("ValueError")
    ELSE IF ~(1 <= end_month /\ end_month <= 12) THEN Raise("ValueError")
    ELSE IF start_month > end_month THEN Raise("ValueError")
    ELSE selected_ranges(sheets, start_month, end_month)

(***************************************************************************)
(* Row processing (sync/data_sync.py)                                      *)
(***************************************************************************)

\* the value of a row's "date" key: a datetime.date or the raw date-range text
DateValue(d) == [isDate |-> TRUE, date |-> d, text |-> <<>>]

TextValue(t) == [isDate |-> FALSE, date |-> MkDate(0, 0, 0), text |-> t]

\* [i for items in expenses.get_data(range).values() for i in items[1:]]:
\* the rows below the header; .values() of None raises AttributeError
BelowHeader(data) ==
    IF ~IsOk(data) THEN data
    ELSE IF data.val = None THEN Raise("AttributeError")
    ELSE Ok(Tail(data.val[1][1].value))

data_rows(grid, range) == BelowHeader(get_data(grid, range))

\* a list that leaves out an r whose building raised
Cons_skipping(r, rest) ==
    IF ~IsOk(rest) THEN rest
    ELSE IF ~IsOk(r) THEN rest
    ELSE Ok(<<r.val>> \o rest.val)

\* a list with r in front, unless building r or the rest raised
Cons(r, rest) ==
    IF ~IsOk(r) THEN r
    ELSE IF ~IsOk(rest) THEN rest
    ELSE Ok(<<r.val>> \o rest.val)

\* the concatenation of two lists, unless building either raised
Concat(rows, rest) ==
    IF ~IsOk(rows) THEN rows
    ELSE IF ~IsOk(rest) THEN rest
    ELSE Ok(rows.val \o rest.val)

\* the dict of data_sync.py:66-73 from the parsed date pd and amount pa of row d
spending_dict(sheet_name, row_index, d, isRange, pd, pa) ==
    IF ~isRange /\ ~IsOk(pd) THEN pd
    ELSE IF ~HasCell(d, AMOUNT_IDX) THEN Raise("IndexError")
    ELSE IF ~IsOk(pa) THEN pa
    ELSE IF ~HasCell(d, DESCRIPTION_IDX) THEN Raise("IndexError")
    ELSE Ok([id          |-> generate_purchase_id(sheet_name, row_index),
             date        |-> IF isRange THEN TextValue(Cell(d, DATE_IDX)) ELSE DateValue(pd.val),
             amount      |-> pa.val,
             category    |-> Cell(d, CATEGORY_IDX),
             description |-> Cell(d, DESCRIPTION_IDX),
             comment     |-> IF Len(d) = 5 THEN Some(Cell(d, COMMENT_IDX)) ELSE None])

\* the dict built at data_sync.py:66-73 for data row d, keys evaluated in order
spending_row(sheet_name, row_index, d) ==
    IF ~HasCell(d, DATE_IDX) THEN Raise("IndexError")
    ELSE spending_dict(sheet_name, row_index, d,
                       is_date_string_date_range(Cell(d, DATE_IDX)),
                       parse_date(Cell(d, DATE_IDX)),
                       parse_amount(Cell(d, AMOUNT_IDX)))

RECURSIVE spending_rows_of(_, _, _)
\* the inner loop of process_spending_data over data[k..], 1-based k
spending_rows_of(sheet_name, data, k) ==
    IF k > Len(data) THEN Ok(<<>>)
    ELSE Cons(spending_row(sheet_name, k - 1, data[k]),
              spending_rows_of(sheet_name, data, k + 1))

\* the rows of one range, from its data rows
spending_rows_in(sheet_name, data) ==
    IF ~IsOk(data) THEN data ELSE spending_rows_of(sheet_name, data.val, 1)

RECURSIVE process_spending_data(_, _)
process_spending_data(grid, spending_ranges) ==
    IF spending_ranges = <<>> THEN Ok(<<>>)
    ELSE Concat(spending_rows_in(get_sheet_name_from_range(Head(spending_ranges)),
                                 data_rows(grid, Head(spending_ranges))),
                process_spending_data(grid, Tail(spending_ranges)))

\* every spending row taken as a purchase, date-range rows too
regular_purchases_all(spending_rows) == spending_rows

\* purchases = [r for r in spending_rows if isinstance(r["date"], date)]
regular_purchases(spending_rows) == SelectSeq(spending_rows, LAMBDA r : r.date.isDate)

\* the key (name, start, end) from the parsed halves of the date range
KeyOf(name, start, end) ==
    IF ~IsOk(start) \/ ~IsOk(end) THEN Raise("ValueError")
    ELSE Ok([name |-> name, start_date |-> start.val, end_date |-> end.val])

KeyOfParts(name, parts) ==
    IF Len(parts) # 2 THEN Raise("ValueError")
    ELSE KeyOf(name, parse_date(parts[1]), parse_date(parts[2]))

\* a key whose name is the whole description, not its first token
trip_key_whole_description(t) == KeyOfParts(t.description, Split(t.date.text, <<"-">>))

\* data_sync.py:84-87: the natural key (name, start, end) of a date-range row;
\* unpacking the parsed halves of date.split("-") raises ValueError unless there
\* are exactly two halves and both parse
trip_key(t) == KeyOfParts(Split(t.description, <<" ">>)[1], Split(t.date.text, <<"-">>))

\* "if t['comment']": neither None nor the empty text
Truthy(comment) == comment # None /\ comment[1] # <<>>

\* a lookup that never finds the key: every row opens an entry of its own
GroupIndex_absent(groups, key) == 0

\* position of the group with the given key in the insertion-ordered dict, 0 if absent
GroupIndex(groups, key) ==
    LET hits == {i \in DOMAIN groups : groups[i].key = key}
    IN  IF hits = {} THEN 0 ELSE CHOOSE i \in hits : TRUE

\* data_sync.py:89-93: the dict after the row with key k and comment has been added
add_to_group(groups, i, k, comment) ==
    IF i = 0
    THEN Append(groups, [key |-> k, comment |-> IF Truthy(comment) THEN {comment[1]} ELSE {}])
    ELSE [groups EXCEPT ![i].comment = @ \cup (IF Truthy(comment) THEN {comment[1]} ELSE {})]

RECURSIVE aggregate_trips(_, _)
\* the rest of the loop once the key k of the first row is known
aggregate_next(trips, groups, k) ==
    IF ~IsOk(k) THEN k
    ELSE aggregate_trips(Tail(trips),
                         add_to_group(groups, GroupIndex(groups, k.val), k.val, Head(trips).comment))

\* data_sync.py:81-93: the defaultdict aggregated_trips after the loop over the
\* date-range rows, as the sequence of its entries in insertion order; each
\* entry holds the set of the truthy comments of its rows
aggregate_trips(trips, groups) ==
    IF trips = <<>> THEN Ok(groups) ELSE aggregate_next(trips, groups, trip_key(Head(trips)))

\* the orders in which iterating a Python set of texts can yield its elements
SetOrders(S) ==
    {f \in [1..Cardinality(S) -> S] : \A i, j \in 1..Cardinality(S) : f[i] = f[j] => i = j}

\* data_sync.py:96-105: the Trip dict of one aggregated entry, its comments joined
\* in the iteration order of the set
trip_row(group, order) ==
    [id         |-> generate_trip_id(group.key.name, group.key.start_date, group.key.end_date),
     name       |-> group.key.name,
     start_date |-> group.key.start_date,
     end_date   |-> group.key.end_date,
     comment    |-> IF group.comment # {} THEN Some(Join(order, <<" ", "|", " ">>)) ELSE None]

\* the ways of choosing an iteration order for the comment set of every entry
OrderChoices(groups) ==
    {o \in [DOMAIN groups -> UNION {SetOrders(groups[i].comment) : i \in DOMAIN groups}] :
        \A i \in DOMAIN groups : o[i] \in SetOrders(groups[i].comment)}

\* data_sync.py:96-107: the possible trip_rows lists of the aggregated entries
trip_rows(agg) ==
    IF ~IsOk(agg) THEN {agg}
    ELSE {Ok([i \in DOMAIN agg.val |-> trip_row(agg.val[i], orders[i])]) :
             orders \in OrderChoices(agg.val)}

\* process_trip_data: the set of its possible outcomes, one per choice of the
\* iteration order of each comment set (a single outcome when it raises)
process_trip_data(spending_rows) ==
    trip_rows(aggregate_trips(SelectSeq(spending_rows, LAMBDA r : ~r.date.isDate), <<>>))

\* the trip name of a trip sheet: sheet_name.split(" ")[0]
sheet_trip_name(sheet_name) == Split(sheet_name, <<" ">>)[1]

\* a link to the last trip of the name that holds the date, not the first
find_trip_id_last(processed_trips, trip_name, purchase_date) ==
    LET hits == {i \in DOMAIN processed_trips :
                    /\ processed_trips[i].name = trip_name
                    /\ DateLE(processed_trips[i].start_date, purchase_date)
                    /\ DateLE(purchase_date, processed_trips[i].end_date)}
    IN  IF hits = {} THEN None
        ELSE Some(processed_trips[CHOOSE i \in hits : \A j \in hits : j <= i].id)

\* data_sync.py:126-131: the id of the first trip of the given name whose
\* interval contains the date, None when there is none; trip_lookup[name] lists
\* the trips of a name in the order of processed_trips
find_trip_id(processed_trips, trip_name, purchase_date) ==
    LET hits == {i \in DOMAIN processed_trips :
                    /\ processed_trips[i].name = trip_name
                    /\ DateLE(processed_trips[i].start_date, purchase_date)
                    /\ DateLE(purchase_date, processed_trips[i].end_date)}
    IN  IF hits = {} THEN None
        ELSE Some(processed_trips[CHOOSE i \in hits : \A j \in hits : i <= j].id)

\* the dict of data_sync.py:133-141 from the parsed date pd and amount pa of row p
trip_spending_dict(sheet_name, row_index, p, processed_trips, trip_name, pd, pa) ==
    IF ~IsOk(pd) THEN pd
    ELSE IF ~HasCell(p, 1) THEN Raise("IndexError")
    ELSE IF ~IsOk(pa) THEN pa
    ELSE IF ~HasCell(p, 3) THEN Raise("IndexError")
    ELSE Ok([id          |-> generate_purchase_id(sheet_name, row_index),
             date        |-> DateValue(pd.val),
             amount      |-> pa.val,
             category    |-> Cell(p, 2),
             description |-> Cell(p, 3),
             comment     |-> IF Len(p) = 5 THEN Some(Cell(p, 4)) ELSE None,
             trip_id     |-> find_trip_id(processed_trips, trip_name, pd.val)])

\* data_sync.py:123-141 for row p of a trip sheet
trip_spending_row(sheet_name, row_index, p, processed_trips) ==
    IF ~HasCell(p, 0) THEN Raise("IndexError")
    ELSE trip_spending_dict(sheet_name, row_index, p, processed_trips,
                            sheet_trip_name(sheet_name),
                            parse_date(Cell(p, 0)), parse_amount(Cell(p, 1)))

RECURSIVE trip_spending_rows_of(_, _, _, _)
trip_spending_rows_of(sheet_name, data, k, processed_trips) ==
    IF k > Len(data) THEN Ok(<<>>)
    ELSE Cons(trip_spending_row(sheet_name, k - 1, data[k], processed_trips),
              trip_spending_rows_of(sheet_name, data, k + 1, processed_trips))

\* the rows of one range; .items() of None raises AttributeError
trip_spending_rows_in(data, processed_trips) ==
    IF ~IsOk(data) THEN data
    ELSE IF data.val = None THEN Raise("AttributeError")
    ELSE trip_spending_rows_of(data.val[1][1].key, Tail(data.val[1][1].value), 1, processed_trips)

RECURSIVE process_trip_spending_data(_, _, _)
process_trip_spending_data(grid, trip_spending_ranges, processed_trips) ==
    IF trip_spending_ranges = <<>> THEN Ok(<<>>)
    ELSE Concat(trip_spending_rows_in(get_data(grid, Head(trip_spending_ranges)), processed_trips),
                process_trip_spending_data(grid, Tail(trip_spending_ranges), processed_trips))

\* the dict of data_sync.py:152-159 from the parsed cells of row d
totals_dict(sheet_name, d, date, amount, progress, budgeted) ==
    IF ~IsOk(date) THEN date
    ELSE IF ~HasCell(d, 1) THEN Raise("IndexError")
    ELSE IF ~IsOk(amount) THEN amount
    ELSE IF ~HasCell(d, 2) THEN Raise("IndexError")
    ELSE IF ~IsOk(progress) THEN progress
    ELSE IF ~HasCell(d, 3) THEN Raise("IndexError")
    ELSE IF ~IsOk(budgeted) THEN budgeted
    ELSE Ok([id       |-> generate_total_id(sheet_name, Cell(d, 0), None),
             date     |-> date.val,
             type     |-> Cell(d, 0),
             amount   |-> amount.val,
             progress |-> progress.val,
             budgeted |-> budgeted.val])

\* data_sync.py:152-159 for totals row d
totals_row(sheet_name, d) ==
    IF ~HasCell(d, 0) THEN Raise("IndexError")
    ELSE totals_dict(sheet_name, d, extract_date_from_sheet_name(sheet_name),
                     parse_amount(Cell(d, 1)), parse_percentage(Cell(d, 2)),
                     parse_amount(Cell(d, 3)))

RECURSIVE totals_rows_of(_, _, _)
totals_rows_of(sheet_name, data, k) ==
    IF k > Len(data) THEN Ok(<<>>)
    ELSE Cons(totals_row(sheet_name, data[k]), totals_rows_of(sheet_name, data, k + 1))

totals_rows_in(sheet_name, data) ==
    IF ~IsOk(data) THEN data ELSE totals_rows_of(sheet_name, data.val, 1)

RECURSIVE process_totals_data(_, _)
process_totals_data(grid, totals_ranges) ==
    IF totals_ranges = <<>> THEN Ok(<<>>)
    ELSE Concat(totals_rows_in(get_sheet_name_from_range(Head(totals_ranges)),
                               data_rows(grid, Head(totals_ranges))),
                process_totals_data(grid, Tail(totals_ranges)))

\* trip_lookup = {trip["name"]: trip for trip in processed_trips}: a later trip
\* of the same name replaces an earlier one; None when the name is absent
trip_by_name(processed_trips, trip_name) ==
    LET hits == {i \in DOMAIN processed_trips : processed_trips[i].name = trip_name}
    IN  IF hits = {} THEN None
        ELSE Some(processed_trips[CHOOSE i \in hits : \A j \in hits : j <= i])

\* the dict of data_sync.py:182-190 from the parsed amount of row d
trip_totals_dict(sheet_name, trip_name, trip, d, amount) ==
    IF ~HasCell(d, 1) THEN Raise("IndexError")
    ELSE IF ~IsOk(amount) THEN amount
    ELSE Ok([id       |-> generate_total_id(sheet_name, Cell(d, 0), Some(trip_name)),
             date     |-> trip.start_date,
             type     |-> Cell(d, 0),
             amount   |-> amount.val,
             progress |-> DEFAULT_NA,
             budgeted |-> DEFAULT_NA,
             trip     |-> Some(trip.id)])

\* data_sync.py:182-190 for trip-totals row d
trip_totals_row(sheet_name, trip_name, trip, d) ==
    IF ~HasCell(d, 0) THEN Raise("IndexError")
    ELSE trip_totals_dict(sheet_name, trip_name, trip, d, parse_amount(Cell(d, 1)))

RECURSIVE trip_totals_rows_of(_, _, _, _, _)
trip_totals_rows_of(sheet_name, trip_name, trip, data, k) ==
    IF k > Len(data) THEN Ok(<<>>)
    ELSE Cons(trip_totals_row(sheet_name, trip_name, trip, data[k]),
              trip_totals_rows_of(sheet_name, trip_name, trip, data, k + 1))

\* a lookup trip_lookup[trip_name], which raises KeyError when the trip is not found
trip_totals_rows_in_strict(grid, range, sheet_name, trip_name, trip) ==
    IF trip = None THEN Raise("KeyError")
    ELSE IF ~IsOk(data_rows(grid, range)) THEN data_rows(grid, range)
    ELSE trip_totals_rows_of(sheet_name, trip_name, trip[1], data_rows(grid, range).val, 1)

\* data_sync.py:172-190 for one range: skipped before any fetch when its trip
\* is not found
trip_totals_rows_in(grid, range, sheet_name, trip_name, trip) ==
    IF trip = None THEN Ok(<<>>)
    ELSE IF ~IsOk(data_rows(grid, range)) THEN data_rows(grid, range)
    ELSE trip_totals_rows_of(sheet_name, trip_name, trip[1], data_rows(grid, range).val, 1)

trip_totals_range(grid, range, sheet_name, processed_trips) ==
    trip_totals_rows_in(grid, range, sheet_name, sheet_trip_name(sheet_name),
                        trip_by_name(processed_trips, sheet_trip_name(sheet_name)))

RECURSIVE process_trip_totals_data(_, _, _)
process_trip_totals_data(grid, trip_totals_ranges, processed_trips) ==
    IF trip_totals_ranges = <<>> THEN Ok(<<>>)
    ELSE Concat(trip_totals_range(grid, Head(trip_totals_ranges),
                                  get_sheet_name_from_range(Head(trip_totals_ranges)),
                                  processed_trips),
                process_trip_totals_data(grid, Tail(trip_totals_ranges), processed_trips))

(***************************************************************************)
(* Persistence sink (db/database.py, db/models.py).  A table is the set of *)
(* its rows; id is the primary key.                                        *)
(***************************************************************************)

\* Purchases(**d): a dict without "trip_id" gets the field's default None;
\* the date column holds the datetime.date
ToPurchases(d) ==
    [id |-> d.id, date |-> d.date.date, amount |-> d.amount, category |-> d.category,
     description |-> d.description, comment |-> d.comment,
     trip_id |-> IF "trip_id" \in DOMAIN d THEN d.trip_id ELSE None]

\* Trips(**d)
ToTrips(d) == d

\* Totals(**d): a dict without "trip" gets the field's default None
ToTotals(d) ==
    [id |-> d.id, date |-> d.date, type |-> d.type, amount |-> d.amount,
     progress |-> d.progress, budgeted |-> d.budgeted,
     trip |-> IF "trip" \in DOMAIN d THEN d.trip ELSE None]

Ids(rows) == {rows[i].id : i \in DOMAIN rows}

TableIds(table) == {r.id : r \in table}

\* a check of the batch only: ids the table already has are let through
PrimaryKeyConflict_within_batch(objs, table) ==
    \E i, j \in DOMAIN objs : i # j /\ objs[i].id = objs[j].id

\* the batch repeats an id, or holds an id the table already has
PrimaryKeyConflict(objs, table) ==
    \/ \E i, j \in DOMAIN objs : i # j /\ objs[i].id = objs[j].id
    \/ Ids(objs) \cap TableIds(table) # {}

\* a save that replaces the stored records whose id the batch holds (an upsert)
save_data_replacing(objs, table, fkViolation) ==
    [err |-> "", val |-> {r \in table : r.id \notin Ids(objs)} \cup {objs[i] : i \in DOMAIN objs}]

\* a save that drops the records whose id conflicts and inserts the rest
save_data_skipping(objs, table, fkViolation) ==
    [err |-> "", val |-> table \cup {objs[i] : i \in {j \in DOMAIN objs : objs[j].id \notin TableIds(table)}}]

\* save_data lines 81-92: add_all and commit in one transaction.  A primary-key
\* conflict, or a foreign-key violation the engine checks, raises IntegrityError
\* after rollback and leaves the table as it was; otherwise every object of the
\* batch is inserted.  The result's val is the table after the call.
save_data(objs, table, fkViolation) ==
    IF PrimaryKeyConflict(objs, table) \/ fkViolation
    THEN [err |-> "IntegrityError", val |-> table]
    ELSE [err |-> "", val |-> table \cup {objs[i] : i \in DOMAIN objs}]

(***************************************************************************)
(* State                                                                   *)
(***************************************************************************)

VARIABLES
    sheetNames,     \* source: the titles of the spreadsheet's sheets, in order
    grid,           \* source: sheet title -> [spending, totals] cell blocks
    fkEnforced,     \* whether the engine behind DB_URL checks foreign keys
    fault,          \* the call to the external source that fails, "none" if none does
    Purchases,      \* table purchases
    Trips,          \* table trips
    Totals,         \* table totals
    pc,             \* position of the running sync_google_sheets_data call
    month,          \* its month argument (Optional text)
    expenses,       \* its Expenses object
    ranges,         \* its four range lists
    spending_rows,  \* locals of sync_google_sheets_data ...
    purchases,
    totals,
    trips,
    trip_purchases,
    trip_totals,
    result,         \* what the call returned or raised
    io,             \* the kinds of external-source calls the call has made
    runs,           \* number of calls that have ended
    log,            \* one entry per ended call: arguments, outcome, ids, store
    mutation,       \* the Mutation.sync_google_sheets call: phase, arguments, response
    query,          \* the last Query.purchases call: its filters and what it passed on
    generated,      \* the ids generated so far, each with the inputs it was made from
    peer            \* a second, overlapping sync invocation: its position and its records

env == <<sheetNames, grid, fkEnforced, fault>>

db == <<Purchases, Trips, Totals>>

locals == <<expenses, ranges, spending_rows, purchases, totals, trips, trip_purchases, trip_totals>>

ctl == <<pc, month, result, io, runs, log>>

api == <<mutation, query, generated, peer>>

vars == <<env, db, locals, ctl, api>>

\* number of sync calls a behaviour makes
MaxRuns == 2

NoRanges ==
    [spending_ranges |-> <<>>, totals_ranges |-> <<>>,
     trip_spending_ranges |-> <<>>, trip_totals_ranges |-> <<>>]

(***************************************************************************)
(* Source spreadsheets                                                     *)
(***************************************************************************)

SpendingHeader == <<<<"D", "a", "t", "e">>, <<"A", "m", "o", "u", "n", "t">>, <<"C", "a", "t", "e", "g", "o", "r", "y">>, <<"D", "e", "s", "c", "r", "i", "p", "t", "i", "o", "n">>, <<"C", "o", "m", "m", "e", "n", "t">>>>

TotalsHeader == <<<<"T", "y", "p", "e">>, <<"A", "m", "o", "u", "n", "t">>, <<"P", "r", "o", "g", "r", "e", "s", "s">>, <<"B", "u", "d", "g", "e", "t">>>>

S_Spending_1_24 == <<"S", "p", "e", "n", "d", "i", "n", "g", " ", "1", "/", "2", "4">>

S_Spending_12_24 == <<"S", "p", "e", "n", "d", "i", "n", "g", " ", "1", "2", "/", "2", "4">>

S_Spending_6_24 == <<"S", "p", "e", "n", "d", "i", "n", "g", " ", "6", "/", "2", "4">>

S_TripSpending_1_24 == <<"T", "r", "i", "p", " ", "S", "p", "e", "n", "d", "i", "n", "g", " ", "1", "/", "2", "4">>

S_HawaiiTrip_6_24 == <<"H", "a", "w", "a", "i", "i", " ", "T", "r", "i", "p", " ", "6", "/", "2", "4">>

R_Lunch == <<<<"1", "/", "5", "/", "2", "4">>, <<"$", "1", "2", ".", "3", "4">>, <<"F", "o", "o", "d">>, <<"L", "u", "n", "c", "h">>>>

R_Refund == <<<<"1", "/", "2", "0", "/", "2", "0", "2", "4">>, <<"-", "$", "5", ".", "6", "7">>, <<"G", "a", "s">>, <<"R", "e", "f", "u", "n", "d">>, <<"n", "o", "t", "e">>>>

R_Rent == <<<<"1", "2", "/", "1", "/", "2", "4">>, <<"$", "1", ",", "2", "3", "4", ".", "5", "6">>, <<"H", "o", "m", "e">>, <<"R", "e", "n", "t">>>>

R_TripRange == <<<<"1", "/", "1", "0", "/", "2", "4", "-", "1", "/", "1", "2", "/", "2", "4">>, <<"$", "3", "0", "0", ".", "0", "0">>, <<"T", "r", "a", "v", "e", "l">>, <<"T", "r", "i", "p", " ", "T", "a", "h", "o", "e">>, <<"s", "n", "o", "w">>>>

R_Ski == <<<<"1", "/", "1", "0", "/", "2", "4">>, <<"$", "8", "0", ".", "0", "0">>, <<"T", "r", "a", "v", "e", "l">>, <<"S", "k", "i">>>>

R_Cabin == <<<<"1", "/", "1", "1", "/", "2", "4">>, <<"$", "1", "5", "0", ".", "0", "0">>, <<"T", "r", "a", "v", "e", "l">>, <<"C", "a", "b", "i", "n">>>>

R_HawaiiRange == <<<<"6", "/", "1", "/", "2", "4", "-", "6", "/", "5", "/", "2", "4">>, <<"$", "9", "0", "0", ".", "0", "0">>, <<"T", "r", "a", "v", "e", "l">>, <<"H", "a", "w", "a", "i", "i", " ", "T", "r", "i", "p">>, <<"f", "u", "n">>>>

R_Beach == <<<<"6", "/", "3", "/", "2", "4">>, <<"$", "2", "0", ".", "0", "0">>, <<"T", "r", "a", "v", "e", "l">>, <<"B", "e", "a", "c", "h">>>>

R_Late == <<<<"7", "/", "1", "/", "2", "4">>, <<"$", "3", "0", ".", "0", "0">>, <<"T", "r", "a", "v", "e", "l">>, <<"L", "a", "t", "e">>, <<"a", "f", "t", "e", "r">>>>

R_Cafe == <<<<"6", "/", "9", "/", "2", "4">>, <<"$", "4", ".", "5", "0">>, <<"F", "o", "o", "d">>, <<"C", "a", "f", "e">>>>

TR_Food == <<<<"F", "o", "o", "d">>, <<"$", "1", "0", "0", ".", "0", "0">>, <<"5", "0", "%">>, <<"$", "2", "0", "0", ".", "0", "0">>>>

TR_Gas == <<<<"G", "a", "s">>, <<"$", "8", "4", ".", "0", "0">>, <<"1", "6", "8", "%">>, <<"$", "5", "0", ".", "0", "0">>>>

TR_Lodging == <<<<"L", "o", "d", "g", "i", "n", "g">>, <<"$", "2", "5", "0", ".", "0", "0">>>>

\* the end-to-end scenario: a month sheet with three data rows, one of them a
\* date range, and a trip sheet with two data rows
WorldScenario ==
    [names |-> <<S_Spending_1_24, S_TripSpending_1_24>>,
     grid  |-> (S_Spending_1_24 :> [spending |-> <<SpendingHeader, R_Lunch, R_Refund, R_TripRange>>,
                                    totals   |-> <<TotalsHeader, TR_Food, TR_Gas>>])
            @@ (S_TripSpending_1_24 :> [spending |-> <<SpendingHeader, R_Ski, R_Cabin>>,
                                        totals   |-> <<<<<<"T", "y", "p", "e">>, <<"A", "m", "o", "u", "n", "t">>>>, TR_Lodging>>])]

\* the same, the trip sheet's totals block holding its header only
WorldScenarioBare ==
    [names |-> <<S_Spending_1_24, S_TripSpending_1_24>>,
     grid  |-> (S_Spending_1_24 :> [spending |-> <<SpendingHeader, R_Lunch, R_Refund, R_TripRange>>,
                                    totals   |-> <<TotalsHeader, TR_Food, TR_Gas>>])
            @@ (S_TripSpending_1_24 :> [spending |-> <<SpendingHeader, R_Ski, R_Cabin>>,
                                        totals   |-> <<<<<<"T", "y", "p", "e">>, <<"A", "m", "o", "u", "n", "t">>>>>>])]

\* two month sheets, no trips
WorldMonths ==
    [names |-> <<S_Spending_1_24, S_Spending_12_24>>,
     grid  |-> (S_Spending_1_24 :> [spending |-> <<SpendingHeader, R_Lunch, R_Refund>>,
                                    totals   |-> <<TotalsHeader, TR_Food>>])
            @@ (S_Spending_12_24 :> [spending |-> <<SpendingHeader, R_Rent>>,
                                     totals   |-> <<TotalsHeader, TR_Gas>>])]

\* a month sheet holding a trip's date-range row, and that trip's own sheet
WorldTrip ==
    [names |-> <<S_Spending_6_24, S_HawaiiTrip_6_24>>,
     grid  |-> (S_Spending_6_24 :> [spending |-> <<SpendingHeader, R_HawaiiRange, R_Cafe>>,
                                    totals   |-> <<TotalsHeader, TR_Food>>])
            @@ (S_HawaiiTrip_6_24 :> [spending |-> <<SpendingHeader, R_Beach, R_Late>>,
                                      totals   |-> <<<<<<"T", "y", "p", "e">>, <<"A", "m", "o", "u", "n", "t">>>>, TR_Lodging>>])]

\* a month sheet whose totals block names the same type twice
WorldTwice ==
    [names |-> <<S_Spending_1_24>>,
     grid  |-> (S_Spending_1_24 :> [spending |-> <<SpendingHeader, R_Lunch>>,
                                    totals   |-> <<TotalsHeader, TR_Food, TR_Food>>])]

\* a spreadsheet without sheets
WorldEmpty == [names |-> <<>>, grid |-> <<>>]

\* a month sheet without any cell in its columns A to E
WorldBlank ==
    [names |-> <<S_Spending_1_24>>,
     grid  |-> (S_Spending_1_24 :> [spending |-> <<>>, totals |-> <<TotalsHeader, TR_Food>>])]

\* a month sheet without any cell in its totals block
WorldNoTotals ==
    [names |-> <<S_Spending_1_24>>,
     grid  |-> (S_Spending_1_24 :> [spending |-> <<SpendingHeader, R_Lunch>>, totals |-> <<>>])]

\* a month sheet with a date range written backwards: its second half is the earlier date
R_Backwards == <<<<"6", "/", "5", "/", "2", "4", "-", "6", "/", "1", "/", "2", "4">>, <<"$", "9", "0", "0", ".", "0", "0">>, <<"T", "r", "a", "v", "e", "l">>, <<"H", "a", "w", "a", "i", "i", " ", "T", "r", "i", "p">>>>

WorldBackwards ==
    [names |-> <<S_Spending_6_24>>,
     grid  |-> (S_Spending_6_24 :> [spending |-> <<SpendingHeader, R_Backwards, R_Cafe>>,
                                    totals   |-> <<TotalsHeader, TR_Food>>])]

Worlds ==
    {WorldScenario, WorldScenarioBare, WorldMonths, WorldTrip, WorldTwice, WorldEmpty,
     WorldBlank, WorldNoTotals, WorldBackwards}

\* no id has been generated: the calls made of each generator, each with its
\* arguments and the id it returned
NoIds == [purchase |-> {}, trip |-> {}, total |-> {}]

\* no second invocation is running
NoPeer ==
    [pc |-> "Idle", purchases |-> <<>>, trip_purchases |-> <<>>, trips |-> <<>>,
     totals |-> <<>>, trip_totals |-> <<>>]

\* no mutation has been called
NoMutation == [phase |-> "none", year |-> <<>>, month |-> None, calls |-> 0, response |-> None]

\* no query has been made
NoQuery == [phase |-> "none", filters |-> None, call |-> Ok(<<>>)]

\* the state before any call, over a given source of which call f fails
InitWith(world, fk, f) ==
    /\ sheetNames = world.names
    /\ grid = world.grid
    /\ fkEnforced = fk
    /\ fault = f
    /\ mutation = NoMutation
    /\ query = NoQuery
    /\ generated = NoIds
    /\ peer = NoPeer
    /\ Purchases = {}
    /\ Trips = {}
    /\ Totals = {}
    /\ pc = "Idle"
    /\ month = None
    /\ expenses = [sheets |-> <<>>]
    /\ ranges = NoRanges
    /\ spending_rows = <<>>
    /\ purchases = <<>>
    /\ totals = <<>>
    /\ trips = <<>>
    /\ trip_purchases = <<>>
    /\ trip_totals = <<>>
    /\ result = Ok(<<>>)
    /\ io = {}
    /\ runs = 0
    /\ log = <<>>

\* the state before any call, over a given source that answers every call
InitOver(world, fk) == InitWith(world, fk, "none")

\* the calls to the external source that can fail: the authorization flow
\* (google_api.py:80-94), the Drive lookup (an HTTP error, or no spreadsheet
\* found), the listing of the sheets, and the fetch of a range
Faults == {"authenticate", "get_expense_sheets_info", "no_spreadsheet", "get_sheet_names", "get_data"}

Init ==
    \/ \E world \in Worlds, fk \in BOOLEAN : InitOver(world, fk)
    \/ \E f \in Faults : InitWith(WorldMonths, FALSE, f)

(***************************************************************************)
(* sync_google_sheets_data (sync/data_sync.py:194-253), one action per     *)
(* statement that touches the source or the store                          *)
(***************************************************************************)

\* the month arguments callers pass: None, "", and month texts in and out of 1..12
MonthArgs == {None, Some(<<>>), Some(<<"1">>), Some(<<"2">>), Some(<<"6">>), Some(<<"1", "2">>), Some(<<"1", "3">>), Some(<<"0">>)}

\* Python int(text) for a text over - 0-9
ParseInt(t) ==
    IF IsDigits(t) THEN Ok(ToInt(t))
    ELSE IF Len(t) > 1 /\ t[1] = "-" /\ IsDigits(Tail(t)) THEN Ok(0 - ToInt(Tail(t)))
    ELSE Raise("ValueError")

\* the log entry of a call that ends now, at position pc, with outcome r over
\* store tables P, T, O
LogEntry(r, P, T, O) ==
    [month     |-> month,
     at        |-> pc,
     result    |-> r,
     purchases |-> Ids(purchases) \cup Ids(trip_purchases),
     trips     |-> Ids(trips),
     totals    |-> Ids(totals) \cup Ids(trip_totals),
     store     |-> [Purchases |-> P, Trips |-> T, Totals |-> O]]

\* the call raises e: the exception leaves sync_google_sheets_data
Fails(e) ==
    /\ pc' = "Failed"
    /\ result' = Raise(e)
    /\ runs' = runs + 1
    /\ log' = Append(log, LogEntry(Raise(e), Purchases, Trips, Totals))

Goes(next) ==
    /\ pc' = next
    /\ UNCHANGED <<result, runs, log>>

\* sync_google_sheets_data(year, m) is entered; no call is running
Invoke(m) ==
    /\ pc \in {"Idle", "Done", "Failed"}
    /\ runs < MaxRuns
    /\ pc' = "Expenses"
    /\ month' = m
    /\ expenses' = [sheets |-> <<>>]
    /\ ranges' = NoRanges
    /\ spending_rows' = <<>>
    /\ purchases' = <<>>
    /\ totals' = <<>>
    /\ trips' = <<>>
    /\ trip_purchases' = <<>>
    /\ trip_totals' = <<>>
    /\ result' = Ok(<<>>)
    /\ io' = {}
    /\ UNCHANGED <<env, db, runs, log, query, generated, peer>>

\* a caller invokes sync_google_sheets_data(year, m) directly
Call(m) ==
    /\ mutation.phase # "running"
    /\ Invoke(m)
    /\ mutation' = NoMutation

\* get_sheet_names (google_api.py:164-195): the titles, or [] when the call fails
get_sheet_names(names, f) == IF f = "get_sheet_names" THEN <<>> ELSE names

\* Expenses.__init__ (Expenses.py:23-27).  A failed authorization flow returns
\* None as credentials, with which the Drive client falls back to the
\* application default credentials when there are any (adc) and raises
\* otherwise; a failed lookup raises HttpError; a lookup that finds no
\* spreadsheet returns None, whose [0] raises TypeError; a failed listing
\* yields no sheet
Expenses_init(names, f, adc) ==
    IF f = "authenticate" /\ ~adc THEN Raise("DefaultCredentialsError")
    ELSE IF f = "get_expense_sheets_info" THEN Raise("HttpError")
    ELSE IF f = "no_spreadsheet" THEN Raise("TypeError")
    ELSE Ok(get_sheet_names(names, f))

\* the cells a fetch can reach: none when every values().get call fails
Reachable(cells, f) == IF f = "get_data" THEN <<>> ELSE cells

\* line 212, Expenses.__init__: authenticate, look the spreadsheet up, list its sheets
NewExpenses ==
    /\ pc = "Expenses"
    /\ \E adc \in BOOLEAN :
           LET r == Expenses_init(sheetNames, fault, adc)
           IN  IF IsOk(r)
               THEN /\ io' = io \cup {"authenticate", "get_expense_sheets_info", "get_sheet_names"}
                    /\ expenses' = [sheets |-> r.val]
                    /\ Goes("Ranges")
               ELSE /\ io' = io \cup {"authenticate", "get_expense_sheets_info"}
                    /\ expenses' = expenses
                    /\ Fails(r.err)
    /\ UNCHANGED <<env, api, db, month, ranges, spending_rows, purchases, totals, trips,
                   trip_purchases, trip_totals>>

\* lines 214-225: int(month) and construct_ranges over one month, or over the year
ConstructRanges ==
    /\ pc = "Ranges"
    /\ LET truthy    == month # None /\ month[1] # <<>>
           month_int == IF truthy THEN ParseInt(month[1]) ELSE Ok(0)
           r         == IF ~IsOk(month_int) THEN month_int
                        ELSE IF truthy
                             THEN construct_ranges(expenses.sheets, month_int.val, month_int.val)
                             ELSE construct_ranges(expenses.sheets, 1, 12)
       IN  IF IsOk(r)
           THEN ranges' = r.val /\ Goes("Spending")
           ELSE ranges' = ranges /\ Fails(r.err)
    /\ UNCHANGED <<env, api, db, month, io, expenses, spending_rows, purchases, totals, trips,
                   trip_purchases, trip_totals>>

\* lines 227-230: process_spending_data, and the concrete-date rows as purchases
ProcessSpending ==
    /\ pc = "Spending"
    /\ io' = IF ranges.spending_ranges # <<>> THEN io \cup {"get_data"} ELSE io
    /\ LET r == process_spending_data(Reachable(grid, fault), ranges.spending_ranges)
       IN  IF IsOk(r)
           THEN /\ spending_rows' = r.val
                /\ purchases' = regular_purchases(r.val)
                /\ Goes("Totals")
           ELSE /\ UNCHANGED <<spending_rows, purchases>>
                /\ Fails(r.err)
    /\ UNCHANGED <<env, api, db, month, expenses, ranges, totals, trips, trip_purchases, trip_totals>>

\* line 231 followed at once by line 233
ProcessTotals_skipping_trips ==
    /\ pc = "Totals"
    /\ io' = IF ranges.totals_ranges # <<>> THEN io \cup {"get_data"} ELSE io
    /\ LET r == process_totals_data(Reachable(grid, fault), ranges.totals_ranges)
       IN  IF IsOk(r)
           THEN totals' = r.val /\ Goes("TripSpending")
           ELSE totals' = totals /\ Fails(r.err)
    /\ UNCHANGED <<env, api, db, month, expenses, ranges, spending_rows, purchases, trips,
                   trip_purchases, trip_totals>>

\* line 231: process_totals_data
ProcessTotals ==
    /\ pc = "Totals"
    /\ io' = IF ranges.totals_ranges # <<>> THEN io \cup {"get_data"} ELSE io
    /\ LET r == process_totals_data(Reachable(grid, fault), ranges.totals_ranges)
       IN  IF IsOk(r)
           THEN totals' = r.val /\ Goes("Trips")
           ELSE totals' = totals /\ Fails(r.err)
    /\ UNCHANGED <<env, api, db, month, expenses, ranges, spending_rows, purchases, trips,
                   trip_purchases, trip_totals>>

\* line 232: process_trip_data
ProcessTrips ==
    /\ pc = "Trips"
    /\ \E r \in process_trip_data(spending_rows) :
           IF IsOk(r)
           THEN trips' = r.val /\ Goes("TripSpending")
           ELSE trips' = trips /\ Fails(r.err)
    /\ UNCHANGED <<env, api, db, month, io, expenses, ranges, spending_rows, purchases, totals,
                   trip_purchases, trip_totals>>

\* line 233: process_trip_spending_data
ProcessTripSpending ==
    /\ pc = "TripSpending"
    /\ io' = IF ranges.trip_spending_ranges # <<>> THEN io \cup {"get_data"} ELSE io
    /\ LET r == process_trip_spending_data(Reachable(grid, fault), ranges.trip_spending_ranges, trips)
       IN  IF IsOk(r)
           THEN trip_purchases' = r.val /\ Goes("TripTotals")
           ELSE trip_purchases' = trip_purchases /\ Fails(r.err)
    /\ UNCHANGED <<env, api, db, month, expenses, ranges, spending_rows, purchases, totals, trips,
                   trip_totals>>

\* line 234: process_trip_totals_data; a range is fetched only when its trip is found
ProcessTripTotals ==
    /\ pc = "TripTotals"
    /\ io' = IF \E i \in DOMAIN ranges.trip_totals_ranges :
                    trip_by_name(trips, sheet_trip_name(get_sheet_name_from_range(
                        ranges.trip_totals_ranges[i]))) # None
             THEN io \cup {"get_data"} ELSE io
    /\ LET r == process_trip_totals_data(Reachable(grid, fault), ranges.trip_totals_ranges, trips)
       IN  IF IsOk(r)
           THEN trip_totals' = r.val /\ Goes("SavePurchases")
           ELSE trip_totals' = trip_totals /\ Fails(r.err)
    /\ UNCHANGED <<env, api, db, month, expenses, ranges, spending_rows, purchases, totals, trips,
                   trip_purchases>>

\* a purchase of the batch refers to a trip that table trips does not hold,
\* and the engine checks the foreign key purchases.trip_id -> trips.id
ForeignKeyViolation(objs) ==
    /\ fkEnforced
    /\ \E i \in DOMAIN objs : objs[i].trip_id # None /\ objs[i].trip_id[1] \notin TableIds(Trips)

\* line 237: save_data(purchases, Purchases)
SavePurchases ==
    /\ pc = "SavePurchases"
    /\ LET objs == [i \in DOMAIN purchases |-> ToPurchases(purchases[i])]
           r    == save_data(objs, Purchases, ForeignKeyViolation(objs))
       IN  /\ Purchases' = r.val
           /\ IF IsOk(r) THEN Goes("SaveTripPurchases") ELSE Fails(r.err)
    /\ UNCHANGED <<env, api, Trips, Totals, month, io, locals>>

\* a save of the trip purchases that, when it fails, also takes back the
\* purchases saved before it
SaveTripPurchases_rolling_back ==
    /\ pc = "SaveTripPurchases"
    /\ LET objs == [i \in DOMAIN trip_purchases |-> ToPurchases(trip_purchases[i])]
           r    == save_data(objs, Purchases, ForeignKeyViolation(objs))
       IN  IF IsOk(r)
           THEN Purchases' = r.val /\ Goes("SaveTrips")
           ELSE /\ Purchases' = (IF Len(log) > 0 THEN log[Len(log)].store.Purchases ELSE {})
                /\ Fails(r.err)
    /\ UNCHANGED <<env, api, Trips, Totals, month, io, locals>>

\* line 238: save_data(trip_purchases, Purchases)
SaveTripPurchases ==
    /\ pc = "SaveTripPurchases"
    /\ LET objs == [i \in DOMAIN trip_purchases |-> ToPurchases(trip_purchases[i])]
           r    == save_data(objs, Purchases, ForeignKeyViolation(objs))
       IN  /\ Purchases' = r.val
           /\ IF IsOk(r) THEN Goes("SaveTrips") ELSE Fails(r.err)
    /\ UNCHANGED <<env, api, Trips, Totals, month, io, locals>>

\* line 239: save_data(trips, Trips)
SaveTrips ==
    /\ pc = "SaveTrips"
    /\ LET objs == [i \in DOMAIN trips |-> ToTrips(trips[i])]
           r    == save_data(objs, Trips, FALSE)
       IN  /\ Trips' = r.val
           /\ IF IsOk(r) THEN Goes("SaveTotals") ELSE Fails(r.err)
    /\ UNCHANGED <<env, api, Purchases, Totals, month, io, locals>>

\* line 240: save_data(totals, Totals)
SaveTotals ==
    /\ pc = "SaveTotals"
    /\ LET objs == [i \in DOMAIN totals |-> ToTotals(totals[i])]
           r    == save_data(objs, Totals, FALSE)
       IN  /\ Totals' = r.val
           /\ IF IsOk(r) THEN Goes("SaveTripTotals") ELSE Fails(r.err)
    /\ UNCHANGED <<env, api, Purchases, Trips, month, io, locals>>

\* line 241: save_data(trip_totals, Totals)
SaveTripTotals ==
    /\ pc = "SaveTripTotals"
    /\ LET objs == [i \in DOMAIN trip_totals |-> ToTotals(trip_totals[i])]
           r    == save_data(objs, Totals, FALSE)
       IN  /\ Totals' = r.val
           /\ IF IsOk(r) THEN Goes("Return") ELSE Fails(r.err)
    /\ UNCHANGED <<env, api, Purchases, Trips, month, io, locals>>

\* counts that take every spending row, date-range rows too, as a regular purchase
Counts_of_spending_rows ==
    [trips             |-> Len(trips),
     regular_purchases |-> Len(spending_rows),
     trip_purchases    |-> Len(trip_purchases),
     totals            |-> Len(totals),
     trip_totals       |-> Len(trip_totals),
     total_purchases   |-> Len(spending_rows) + Len(trip_purchases)]

\* lines 243-250: the counts dict
Counts ==
    [trips             |-> Len(trips),
     regular_purchases |-> Len(purchases),
     trip_purchases    |-> Len(trip_purchases),
     totals            |-> Len(totals),
     trip_totals       |-> Len(trip_totals),
     total_purchases   |-> Len(purchases) + Len(trip_purchases)]

\* line 253: return result
Return ==
    /\ pc = "Return"
    /\ pc' = "Done"
    /\ result' = Ok(Counts)
    /\ runs' = runs + 1
    /\ log' = Append(log, LogEntry(Ok(Counts), Purchases, Trips, Totals))
    /\ UNCHANGED <<env, api, db, month, io, locals>>

\* the SyncResult of schema.py:72-78
SyncResult(trips_, regular_purchases_, trip_purchases_, total_purchases_, success_, message_) ==
    [trips |-> trips_, regular_purchases |-> regular_purchases_,
     trip_purchases |-> trip_purchases_, total_purchases |-> total_purchases_,
     success |-> success_, message |-> message_]

\* str(e): the text of an exception, one element that stands for the text of
\* that exception
ExceptionText(e) == <<e>>

\* the message that names no exception
sync_google_sheets_returns_bare(year, r) ==
    IF IsOk(r)
    THEN SyncResult(r.val.trips, r.val.regular_purchases, r.val.trip_purchases,
                    r.val.total_purchases, TRUE, <<"S", "u", "c", "c", "e", "s", "s", "f", "u", "l", "l", "y", " ", "s", "y", "n", "c", "e", "d", " ", "d", "a", "t", "a", " ", "f", "o", "r", " ", "y", "e", "a", "r", " ">> \o year)
    ELSE SyncResult(0, 0, 0, 0, FALSE, <<"E", "r", "r", "o", "r", " ", "s", "y", "n", "c", "i", "n", "g", " ", "d", "a", "t", "a", ":", " ">>)

\* schema.py:84-102: what Mutation.sync_google_sheets returns when the sync
\* entry point has returned or raised r
sync_google_sheets_returns(year, r) ==
    IF IsOk(r)
    THEN SyncResult(r.val.trips, r.val.regular_purchases, r.val.trip_purchases,
                    r.val.total_purchases, TRUE, <<"S", "u", "c", "c", "e", "s", "s", "f", "u", "l", "l", "y", " ", "s", "y", "n", "c", "e", "d", " ", "d", "a", "t", "a", " ", "f", "o", "r", " ", "y", "e", "a", "r", " ">> \o year)
    ELSE SyncResult(0, 0, 0, 0, FALSE, <<"E", "r", "r", "o", "r", " ", "s", "y", "n", "c", "i", "n", "g", " ", "d", "a", "t", "a", ":", " ">> \o ExceptionText(r.err))

\* the arguments callers pass to the mutation: a year, and a month or none
MutationYears == {<<"2", "0", "2", "4">>}

MutationMonths == {None, Some(<<"0", "1">>)}

\* schema.py:83-85: Mutation.sync_google_sheets(year) is called, with the keyword
\* month when m is given.  The method takes no month: binding the arguments
\* raises TypeError before its body runs.  Otherwise it calls
\* sync_google_sheets_data(year)
SyncGoogleSheets(y, m) ==
    /\ mutation.phase # "running"
    /\ runs < MaxRuns
    /\ IF m # None
       THEN /\ pc \in {"Idle", "Done", "Failed"}
            /\ mutation' = [phase |-> "raised", year |-> y, month |-> m, calls |-> 0,
                            response |-> None]
            /\ UNCHANGED <<env, db, locals, ctl, query, generated, peer>>
       ELSE /\ Invoke(None)
            /\ mutation' = [phase |-> "running", year |-> y, month |-> m, calls |-> 1,
                            response |-> None]

\* schema.py:86-102: the sync has returned or raised, the mutation returns its SyncResult
SyncGoogleSheetsReturn ==
    /\ mutation.phase = "running"
    /\ pc \in {"Done", "Failed"}
    /\ mutation' = [mutation EXCEPT !.phase = "returned",
                                    !.response = Some(sync_google_sheets_returns(mutation.year, result))]
    /\ UNCHANGED <<env, db, locals, ctl, query, generated, peer>>

Steps ==
    \/ NewExpenses
    \/ ConstructRanges
    \/ ProcessSpending
    \/ ProcessTotals
    \/ ProcessTrips
    \/ ProcessTripSpending
    \/ ProcessTripTotals
    \/ SavePurchases
    \/ SaveTripPurchases
    \/ SaveTrips
    \/ SaveTotals
    \/ SaveTripTotals
    \/ Return

Next ==
    \/ \E m \in MonthArgs : Call(m)
    \/ \E y \in MutationYears, m \in MutationMonths : SyncGoogleSheets(y, m)
    \/ SyncGoogleSheetsReturn
    \/ Steps

Spec == Init /\ [][Next]_vars

(***************************************************************************)
(* Input spaces of the pipeline's functions: each specification below runs *)
(* one call of the sync over sources drawn from a bounded set              *)
(***************************************************************************)

\* one call, over the whole year
NextOnce == (runs = 0 /\ Call(None)) \/ Steps

\* program constant: months of a year (Expenses.construct_ranges defaults 1..12)
MonthsInYear == 12

\* the two-digit years of the sheet titles "Spending M/YY"
AnchorYears == {<<"2", "4">>, <<"2", "5">>}

\* the title "Spending M/YY"
MonthSheet(m, yy) == T_SpendingSp \o NatToText(m) \o <<"/">> \o yy

\* number of rows of a month sheet's totals block, below its header
MaxTotalsRows == 2

TotalsPool == <<TR_Food, TR_Gas, TR_Food>>

\* a spreadsheet of one month sheet "Spending M/YY" with k totals rows
AnchorWorld(m, yy, k) ==
    [names |-> <<MonthSheet(m, yy)>>,
     grid  |-> (MonthSheet(m, yy) :> [spending |-> <<SpendingHeader, R_Lunch>>,
                                      totals   |-> <<TotalsHeader>> \o SubSeq(TotalsPool, 1, k)])]

InitAnchor ==
    \E m \in 1..MonthsInYear, yy \in AnchorYears, k \in 1..MaxTotalsRows, fk \in BOOLEAN :
        InitOver(AnchorWorld(m, yy, k), fk)

SpecAnchor == InitAnchor /\ [][NextOnce]_vars

\* sheet titles a spreadsheet may hold
S_Spending_2_24 == <<"S", "p", "e", "n", "d", "i", "n", "g", " ", "2", "/", "2", "4">>

S_Notes == <<"N", "o", "t", "e", "s">>

TitlePool ==
    {S_Spending_1_24, S_Spending_2_24, S_Spending_12_24, S_TripSpending_1_24,
     S_HawaiiTrip_6_24, S_Notes}

\* number of sheets of a spreadsheet
MaxSheets == 2

\* the lists of at most n distinct titles
TitleLists(n) ==
    UNION {{s \in [1..k -> TitlePool] : \A i, j \in 1..k : s[i] = s[j] => i = j} : k \in 0..n}

\* every sheet with one spending row and a totals block of its header only
PlainWorld(names) ==
    [names |-> names,
     grid  |-> [s \in {names[i] : i \in DOMAIN names} |->
                  [spending |-> <<SpendingHeader, R_Lunch>>, totals |-> <<TotalsHeader>>]]]

InitRanges == \E names \in TitleLists(MaxSheets) : InitOver(PlainWorld(names), FALSE)

\* the month arguments "1" .. "12", "13" and None
AllMonthArgs == {None} \cup {Some(NatToText(m)) : m \in 1..(MonthsInYear + 1)}

NextMonths == (\E m \in AllMonthArgs : runs = 0 /\ Call(m)) \/ Steps

SpecRanges == InitRanges /\ [][NextMonths]_vars

\* rows of a month sheet: date ranges of trips in several spellings, with and
\* without comment, a row whose date cell starts with the trip's name, and a
\* dated purchase
R_HawaiiAir == <<<<"6", "/", "1", "/", "2", "0", "2", "4", "-", "6", "/", "5", "/", "2", "0", "2", "4">>, <<"$", "4", "0", "0", ".", "0", "0">>, <<"T", "r", "a", "v", "e", "l">>, <<"H", "a", "w", "a", "i", "i", " ", "A", "i", "r">>, <<"s", "u", "n">>>>

R_HawaiiBare == <<<<"6", "/", "1", "/", "2", "4", "-", "6", "/", "5", "/", "2", "4">>, <<"$", "5", "0", ".", "0", "0">>, <<"T", "r", "a", "v", "e", "l">>, <<"H", "a", "w", "a", "i", "i", " ", "T", "r", "i", "p">>>>

R_HawaiiJuly == <<<<"7", "/", "1", "/", "2", "4", "-", "7", "/", "3", "/", "2", "4">>, <<"$", "7", "0", ".", "0", "0">>, <<"T", "r", "a", "v", "e", "l">>, <<"H", "a", "w", "a", "i", "i", " ", "T", "r", "i", "p">>, <<"f", "u", "n">>>>

R_ParisRange == <<<<"6", "/", "1", "/", "2", "4", "-", "6", "/", "5", "/", "2", "4">>, <<"$", "8", "0", "0", ".", "0", "0">>, <<"T", "r", "a", "v", "e", "l">>, <<"P", "a", "r", "i", "s", " ", "T", "r", "i", "p">>, <<"s", "u", "n">>>>

R_HawaiiNamed == <<<<"H", "a", "w", "a", "i", "i", " ", "6", "/", "1", "/", "2", "4", "-", "6", "/", "5", "/", "2", "4">>, <<"$", "9", "0", "0", ".", "0", "0">>, <<"T", "r", "a", "v", "e", "l">>, <<"H", "a", "w", "a", "i", "i", " ", "T", "r", "i", "p">>, <<"f", "u", "n">>>>

TripRowPool ==
    {R_HawaiiRange, R_HawaiiAir, R_HawaiiBare, R_HawaiiJuly, R_ParisRange, R_HawaiiNamed, R_Cafe}

\* number of data rows of the month sheet
MaxTripRows == 3

RowLists(n) == UNION {[1..k -> TripRowPool] : k \in 0..n}

TripWorld(rows) ==
    [names |-> <<S_Spending_6_24>>,
     grid  |-> (S_Spending_6_24 :> [spending |-> <<SpendingHeader>> \o rows,
                                    totals   |-> <<TotalsHeader, TR_Food>>])]

InitTrips == \E rows \in RowLists(MaxTripRows) : InitOver(TripWorld(rows), FALSE)

SpecTrips == InitTrips /\ [][NextOnce]_vars

\* a second trip sheet, and a second date range of the trip Hawaii that
\* overlaps the first
S_ParisTrip_6_24 == <<"P", "a", "r", "i", "s", " ", "T", "r", "i", "p", " ", "6", "/", "2", "4">>

R_HawaiiLong == <<<<"6", "/", "3", "/", "2", "4", "-", "6", "/", "1", "0", "/", "2", "4">>, <<"$", "5", "0", "0", ".", "0", "0">>, <<"T", "r", "a", "v", "e", "l">>, <<"H", "a", "w", "a", "i", "i", " ", "S", "t", "a", "y">>, <<"l", "o", "n", "g">>>>

TripTotalsHeader == <<<<"T", "y", "p", "e">>, <<"A", "m", "o", "u", "n", "t">>>>

LinkRangePool == {R_HawaiiRange, R_HawaiiLong, R_ParisRange}

LinkRowPool == {R_Beach, R_Late}

\* number of date-range rows of the month sheet
MaxLinkTrips == 2

\* number of data rows of the trip sheet "Hawaii Trip 6/24"
MaxLinkRows == 2

RowsFrom(pool, n) == UNION {[1..k -> pool] : k \in 0..n}

\* a month sheet with the given date-range rows, the trip sheet of Hawaii with
\* the given rows and, listed before it when first is not empty, the trip sheet
\* of Paris
LinkWorld(rangeRows, tripRows, first) ==
    [names |-> <<S_Spending_6_24>> \o first \o <<S_HawaiiTrip_6_24>>,
     grid  |-> (S_Spending_6_24 :> [spending |-> <<SpendingHeader>> \o rangeRows \o <<R_Cafe>>,
                                    totals   |-> <<TotalsHeader, TR_Food>>])
            @@ (S_ParisTrip_6_24 :> [spending |-> <<SpendingHeader, R_Beach>>,
                                     totals   |-> <<TripTotalsHeader, TR_Lodging>>])
            @@ (S_HawaiiTrip_6_24 :> [spending |-> <<SpendingHeader>> \o tripRows,
                                      totals   |-> <<TripTotalsHeader, TR_Lodging, TR_Food>>])]

InitLink ==
    \E rangeRows \in RowsFrom(LinkRangePool, MaxLinkTrips),
       tripRows \in RowsFrom(LinkRowPool, MaxLinkRows),
       first \in {<<>>, <<S_ParisTrip_6_24>>},
       fk \in BOOLEAN :
        InitOver(LinkWorld(rangeRows, tripRows, first), fk)

SpecLink == InitLink /\ [][NextOnce]_vars

(***************************************************************************)
(* Malformed cells: one sync over a month sheet and a trip sheet whose rows *)
(* are drawn from pools holding well-formed rows and rows with a date, an   *)
(* amount or a percentage that does not parse                               *)
(***************************************************************************)

R_BadDate == <<<<"J", "u", "n", "e", " ", "3">>, <<"$", "7", ".", "0", "0">>, <<"F", "o", "o", "d">>, <<"S", "n", "a", "c", "k">>>>

R_BadAmount == <<<<"6", "/", "4", "/", "2", "4">>, <<"s", "e", "v", "e", "n">>, <<"F", "o", "o", "d">>, <<"T", "e", "a">>>>

R_BadRange == <<<<"6", "/", "1", "/", "2", "4", "-", "s", "o", "o", "n">>, <<"$", "9", "0", "0", ".", "0", "0">>, <<"T", "r", "a", "v", "e", "l">>, <<"H", "a", "w", "a", "i", "i", " ", "T", "r", "i", "p">>, <<"f", "u", "n">>>>

TR_BadAmount == <<<<"G", "a", "s">>, <<"n", "/", "a">>, <<"5", "0", "%">>, <<"$", "2", "0", "0", ".", "0", "0">>>>

TR_BadPercent == <<<<"G", "a", "s">>, <<"$", "8", "4", ".", "0", "0">>, <<"h", "a", "l", "f">>, <<"$", "5", "0", ".", "0", "0">>>>

TR_BadBudget == <<<<"G", "a", "s">>, <<"$", "8", "4", ".", "0", "0">>, <<"5", "0", "%">>, <<"n", "o", "n", "e">>>>

TR_LodgingBad == <<<<"L", "o", "d", "g", "i", "n", "g">>, <<"f", "r", "e", "e">>>>

ParseRangePool == {R_HawaiiRange, R_BadRange}

ParseRowPool == {R_Cafe, R_BadDate, R_BadAmount}

ParseTotalsPool == {TR_Food, TR_BadAmount, TR_BadPercent, TR_BadBudget}

ParseTripRowPool == {R_Beach, R_BadDate, R_BadAmount}

ParseTripTotalsPool == {TR_Lodging, TR_LodgingBad}

MaxParseRows == 2

\* the spreadsheet with the month sheet of June and the trip sheet of Hawaii
ParseWorld(rangeRow, rows, totalRow, tripRow, tripTotalRow) ==
    [names |-> <<S_Spending_6_24, S_HawaiiTrip_6_24>>,
     grid  |-> (S_Spending_6_24 :> [spending |-> <<SpendingHeader, rangeRow>> \o rows,
                                    totals   |-> <<TotalsHeader, totalRow>>])
            @@ (S_HawaiiTrip_6_24 :> [spending |-> <<SpendingHeader, tripRow>>,
                                      totals   |-> <<TripTotalsHeader, tripTotalRow>>])]

InitParse ==
    \E rangeRow \in ParseRangePool,
       rows \in RowsFrom(ParseRowPool, MaxParseRows),
       totalRow \in ParseTotalsPool,
       tripRow \in ParseTripRowPool,
       tripTotalRow \in ParseTripTotalsPool,
       fk \in BOOLEAN :
        InitOver(ParseWorld(rangeRow, rows, totalRow, tripRow, tripTotalRow), fk)

SpecParse == InitParse /\ [][NextOnce]_vars

(***************************************************************************)
(* Query.purchases (api/schema.py): the filter dict it passes to query_data *)
(***************************************************************************)

\* Purchases.model_fields (db/models.py:54-60): the columns; the relationship
\* trip (line 62) is not among them
PurchasesFields == <<"id", "date", "amount", "category", "description", "comment", "trip_id">>

\* get_field_name: the name of the model field that is the referenced
\* attribute, ValueError when no model field is
get_field_name(model_fields, field_ref) ==
    IF \E i \in DOMAIN model_fields : model_fields[i] = field_ref
    THEN Ok(field_ref)
    ELSE Raise("ValueError")

\* filter_args[name] = value, unless an earlier statement or computing the name raised
SetItem(filter_args, name, value) ==
    IF ~IsOk(filter_args) THEN filter_args
    ELSE IF ~IsOk(name) THEN name
    ELSE Ok((name.val :> value) @@ filter_args.val)

\* "if filters.x" for an optional list: neither None nor empty
GivenList(x) == x # None /\ x[1] # <<>>

\* "if filters.x" for an optional text: neither None nor empty
GivenText(x) == x # None /\ x[1] # ""

\* schema.py:26-27
WithCategories(filter_args, filters) ==
    IF GivenList(filters.categories)
    THEN SetItem(filter_args, get_field_name(PurchasesFields, "category"), filters.categories[1])
    ELSE filter_args

\* schema.py:28-29
WithDescriptions(filter_args, filters) ==
    IF GivenList(filters.descriptions)
    THEN SetItem(filter_args, get_field_name(PurchasesFields, "description"), filters.descriptions[1])
    ELSE filter_args

\* schema.py:30-31: the attribute referenced is the relationship Purchases.trip
WithTrip(filter_args, filters) ==
    IF GivenText(filters.trip)
    THEN SetItem(filter_args, get_field_name(PurchasesFields, "trip"), filters.trip[1])
    ELSE filter_args

\* schema.py:33-41; a date is never falsy
WithDates(filter_args, filters) ==
    IF filters.start_date # None /\ filters.end_date # None
    THEN SetItem(filter_args, get_field_name(PurchasesFields, "date"),
                 <<[op |-> ">=", arg |-> filters.start_date[1]],
                   [op |-> "<=", arg |-> filters.end_date[1]]>>)
    ELSE IF filters.start_date # None
    THEN SetItem(filter_args, get_field_name(PurchasesFields, "date"),
                 [op |-> ">=", arg |-> filters.start_date[1]])
    ELSE IF filters.end_date # None
    THEN SetItem(filter_args, get_field_name(PurchasesFields, "date"),
                 [op |-> "<=", arg |-> filters.end_date[1]])
    ELSE filter_args

\* schema.py:23-43: the dict Query.purchases passes to query_data, or what it
\* raises before the call; min_amount and max_amount are not read
purchases_filter_args(filters) ==
    IF filters = None THEN Ok(<<>>)
    ELSE WithDates(WithTrip(WithDescriptions(WithCategories(Ok(<<>>), filters[1]),
                                             filters[1]), filters[1]), filters[1])

\* PurchaseFilterInput (filters.py:6-14), every field optional
PurchaseFilterInput ==
    [categories   : {None, Some(<<>>), Some(<<"Food", "Gas">>)},
     descriptions : {None, Some(<<"Lunch">>)},
     start_date   : {None, Some(MkDate(2024, 1, 1))},
     end_date     : {None, Some(MkDate(2024, 1, 31))},
     trip         : {None, Some(""), Some("trip1")},
     min_amount   : {None, Some(10)},
     max_amount   : {None, Some(100)}]

\* Query.purchases(filters) is called
QueryPurchases(filters) ==
    /\ query' = [phase |-> "called", filters |-> filters, call |-> purchases_filter_args(filters)]
    /\ UNCHANGED <<env, db, locals, ctl, mutation, generated, peer>>

InitFilters == InitOver(WorldEmpty, FALSE)

NextFilters == \E filters \in {None} \cup {Some(f) : f \in PurchaseFilterInput} : QueryPurchases(filters)

SpecFilters == InitFilters /\ [][NextFilters]_vars

(***************************************************************************)
(* The id generators (db/models.py) called on their own, over sheet names   *)
(* and total types with and without "_", and with and without a trip name   *)
(***************************************************************************)

IdSheetPool == {<<"A">>, <<"A", "_", "1">>, <<"A", "_", "b">>}

IdTypePool == {<<"b">>, <<"c">>, <<"b", "_", "c">>, <<"1">>}

IdTripNamePool == {None, Some(<<"c">>)}

IdIndexPool == {0, 1, 11}

IdNamePool == {<<"H", "a", "w", "a", "i", "i">>, <<"P", "a", "r", "i", "s">>}

IdDatePool == {MkDate(2024, 6, 1), MkDate(2024, 6, 5)}

MaxGenerated == 2

\* the number of generator calls recorded
Generated ==
    Cardinality(generated.purchase) + Cardinality(generated.trip) + Cardinality(generated.total)

\* models.py:14-17
GeneratePurchaseId(sheet_name, row_index) ==
    /\ Generated < MaxGenerated
    /\ generated' = [generated EXCEPT !.purchase =
           @ \cup {[sheet_name |-> sheet_name, row_index |-> row_index,
                     id |-> generate_purchase_id(sheet_name, row_index)]}]
    /\ UNCHANGED <<env, db, locals, ctl, mutation, query, peer>>

\* models.py:19-22
GenerateTripId(name, start_date, end_date) ==
    /\ Generated < MaxGenerated
    /\ generated' = [generated EXCEPT !.trip =
           @ \cup {[name |-> name, start_date |-> start_date, end_date |-> end_date,
                     id |-> generate_trip_id(name, start_date, end_date)]}]
    /\ UNCHANGED <<env, db, locals, ctl, mutation, query, peer>>

\* models.py:24-30
GenerateTotalId(sheet_name, total_type, trip_name) ==
    /\ Generated < MaxGenerated
    /\ generated' = [generated EXCEPT !.total =
           @ \cup {[sheet_name |-> sheet_name, total_type |-> total_type, trip_name |-> trip_name,
                     id |-> generate_total_id(sheet_name, total_type, trip_name)]}]
    /\ UNCHANGED <<env, db, locals, ctl, mutation, query, peer>>

InitIds == InitOver(WorldEmpty, FALSE)

NextIds ==
    \/ \E sheet_name \in IdSheetPool, row_index \in IdIndexPool :
           GeneratePurchaseId(sheet_name, row_index)
    \/ \E name \in IdNamePool, start_date \in IdDatePool, end_date \in IdDatePool :
           GenerateTripId(name, start_date, end_date)
    \/ \E sheet_name \in IdSheetPool, total_type \in IdTypePool, trip_name \in IdTripNamePool :
           GenerateTotalId(sheet_name, total_type, trip_name)

SpecIds == InitIds /\ [][NextIds]_vars

(***************************************************************************)
(* Two overlapping invocations of sync_google_sheets_data over the same     *)
(* source.  Extraction reads the source only, so the second invocation's    *)
(* extraction is one step, taken before the first invocation's first save;  *)
(* the saves of the two, each a transaction of its own, interleave freely.  *)
(***************************************************************************)

\* a month sheet whose two date-range rows of one trip carry different comments
WorldComments ==
    [names |-> <<S_Spending_6_24, S_HawaiiTrip_6_24>>,
     grid  |-> (S_Spending_6_24 :> [spending |-> <<SpendingHeader, R_HawaiiRange, R_HawaiiAir, R_Cafe>>,
                                    totals   |-> <<TotalsHeader, TR_Food>>])
            @@ (S_HawaiiTrip_6_24 :> [spending |-> <<SpendingHeader, R_Beach>>,
                                      totals   |-> <<TripTotalsHeader, TR_Lodging>>])]

\* data_sync.py:226-234 run by the second invocation: the same extraction over
\* the same source, with its own iteration order of each trip's comment set
PeerExtract ==
    /\ pc = "SavePurchases"
    /\ peer.pc = "Idle"
    /\ \E t \in process_trip_data(spending_rows) :
           /\ IsOk(t)
           /\ peer' = [pc             |-> "SavePurchases",
                       purchases      |-> regular_purchases(spending_rows),
                       trip_purchases |-> process_trip_spending_data(grid, ranges.trip_spending_ranges, t.val).val,
                       trips          |-> t.val,
                       totals         |-> totals,
                       trip_totals    |-> process_trip_totals_data(grid, ranges.trip_totals_ranges, t.val).val]
    /\ UNCHANGED <<env, db, locals, ctl, mutation, query, generated>>

\* the step after a save that succeeded (data_sync.py:236-253)
AfterSave(step) ==
    IF step = "SavePurchases" THEN "SaveTripPurchases"
    ELSE IF step = "SaveTripPurchases" THEN "SaveTrips"
    ELSE IF step = "SaveTrips" THEN "SaveTotals"
    ELSE IF step = "SaveTotals" THEN "SaveTripTotals"
    ELSE "Done"

\* the second invocation after its save returned or raised r
PeerAfter(r) == [peer EXCEPT !.pc = IF IsOk(r) THEN AfterSave(peer.pc) ELSE "Failed"]

\* the second invocation's save_data(purchases, Purchases)
PeerSavePurchases ==
    /\ peer.pc = "SavePurchases"
    /\ LET objs == [i \in DOMAIN peer.purchases |-> ToPurchases(peer.purchases[i])]
           r    == save_data(objs, Purchases, ForeignKeyViolation(objs))
       IN  Purchases' = r.val /\ peer' = PeerAfter(r)
    /\ UNCHANGED <<env, Trips, Totals, locals, ctl, mutation, query, generated>>

\* the second invocation's save_data(trip_purchases, Purchases)
PeerSaveTripPurchases ==
    /\ peer.pc = "SaveTripPurchases"
    /\ LET objs == [i \in DOMAIN peer.trip_purchases |-> ToPurchases(peer.trip_purchases[i])]
           r    == save_data(objs, Purchases, ForeignKeyViolation(objs))
       IN  Purchases' = r.val /\ peer' = PeerAfter(r)
    /\ UNCHANGED <<env, Trips, Totals, locals, ctl, mutation, query, generated>>

\* the second invocation's save_data(trips, Trips)
PeerSaveTrips ==
    /\ peer.pc = "SaveTrips"
    /\ LET objs == [i \in DOMAIN peer.trips |-> ToTrips(peer.trips[i])]
           r    == save_data(objs, Trips, FALSE)
       IN  Trips' = r.val /\ peer' = PeerAfter(r)
    /\ UNCHANGED <<env, Purchases, Totals, locals, ctl, mutation, query, generated>>

\* the second invocation's save_data(totals, Totals)
PeerSaveTotals ==
    /\ peer.pc = "SaveTotals"
    /\ LET objs == [i \in DOMAIN peer.totals |-> ToTotals(peer.totals[i])]
           r    == save_data(objs, Totals, FALSE)
       IN  Totals' = r.val /\ peer' = PeerAfter(r)
    /\ UNCHANGED <<env, Purchases, Trips, locals, ctl, mutation, query, generated>>

\* the second invocation's save_data(trip_totals, Totals)
PeerSaveTripTotals ==
    /\ peer.pc = "SaveTripTotals"
    /\ LET objs == [i \in DOMAIN peer.trip_totals |-> ToTotals(peer.trip_totals[i])]
           r    == save_data(objs, Totals, FALSE)
       IN  Totals' = r.val /\ peer' = PeerAfter(r)
    /\ UNCHANGED <<env, Purchases, Trips, locals, ctl, mutation, query, generated>>

InitOverlap == \E world \in Worlds \cup {WorldComments}, fk \in BOOLEAN : InitOver(world, fk)

NextOverlap ==
    \/ runs = 0 /\ Call(None)
    \/ Steps
    \/ PeerExtract
    \/ PeerSavePurchases
    \/ PeerSaveTripPurchases
    \/ PeerSaveTrips
    \/ PeerSaveTotals
    \/ PeerSaveTripTotals

SpecOverlap == InitOverlap /\ [][NextOverlap]_vars

(***************************************************************************)
(* Syncs over a source that is edited between them: rows replaced in place, *)
(* sheets added and removed                                                 *)
(***************************************************************************)

\* the month sheet of January with its first data row replaced by another
WorldEdited ==
    [names |-> <<S_Spending_1_24>>,
     grid  |-> (S_Spending_1_24 :> [spending |-> <<SpendingHeader, R_Refund, R_Lunch>>,
                                    totals   |-> <<TotalsHeader, TR_Gas>>])]

EditWorlds == {WorldTwice, WorldEdited, WorldScenario, WorldTrip, WorldEmpty}

\* between two syncs the owner of the spreadsheet edits it
ChangeSource ==
    /\ pc \in {"Done", "Failed"}
    /\ runs < MaxRuns
    /\ \E world \in EditWorlds :
           /\ world.grid # grid
           /\ sheetNames' = world.names
           /\ grid' = world.grid
    /\ UNCHANGED <<fkEnforced, fault, db, locals, ctl, api>>

InitEdit == \E world \in EditWorlds, fk \in BOOLEAN : InitOver(world, fk)

\* the month arguments of the syncs: the whole year, or January
EditMonthArgs == {None, Some(<<"1">>)}

NextEdit ==
    \/ \E m \in EditMonthArgs : Call(m)
    \/ Steps
    \/ ChangeSource

SpecEdit == InitEdit /\ [][NextEdit]_vars

(***************************************************************************)
(* query_data (db/database.py) called on its own, over a small table and    *)
(* filter dicts of up to two columns in either key order                    *)
(***************************************************************************)

QueryRowPool ==
    {[id |-> 1, amount |-> 1, category |-> "a"],
     [id |-> 2, amount |-> 2, category |-> "a"],
     [id |-> 3, amount |-> 2, category |-> "b"],
     [id |-> 4, amount |-> 3, category |-> "b"]}

\* filter values on the amount column: equality, IN list, one operator,
\* a two-sided list, an operator that is not one of the six
AmountFilterPool ==
    <<[eq |-> 2],
      [isin |-> {1, 3}],
      [ops |-> <<[op |-> ">", arg |-> 1]>>],
      [ops |-> <<[op |-> "<", arg |-> 3]>>],
      [ops |-> <<[op |-> ">=", arg |-> 2], [op |-> "<=", arg |-> 3]>>],
      [ops |-> <<[op |-> "!=", arg |-> 2]>>],
      [ops |-> <<[op |-> ">=", arg |-> 2], [op |-> "=<", arg |-> 3]>>]>>

\* filter values on the category column
CategoryFilterPool ==
    <<[eq |-> "a"],
      [isin |-> {"a", "b"}],
      [ops |-> <<[op |-> "==", arg |-> "b"]>>],
      [ops |-> <<[op |-> "!=", arg |-> "b"]>>],
      [ops |-> <<[op |-> "like", arg |-> "a"]>>]>>

\* database.py:155-162
VALID_OPERATORS == {">", "<", ">=", "<=", "==", "!="}

\* database.py:155-162: VALID_OPERATORS[operator](col, val)
ApplyOperator(operator, col, val) ==
    CASE operator = ">"  -> col > val
      [] operator = "<"  -> col < val
      [] operator = ">=" -> col >= val
      [] operator = "<=" -> col <= val
      [] operator = "==" -> col = val
      [] operator = "!=" -> col # val

\* database.py:181-201: one pass of the loop over filters.items(); stmt is
\* the set of rows the statement selects so far
FilterItem(loop, column, value) ==
    IF "ops" \in DOMAIN value
    THEN [stmt |-> loop.stmt, column_attr |-> column, conditions |-> value.ops]
    ELSE IF "isin" \in DOMAIN value
    THEN [stmt |-> {r \in loop.stmt : r[column] \in value.isin},
          column_attr |-> column, conditions |-> <<>>]
    ELSE [stmt |-> {r \in loop.stmt : r[column] = value.eq},
          column_attr |-> column, conditions |-> <<>>]

RECURSIVE FilterItems(_, _, _)
\* database.py:180-201: the loop over the items of the dict, in its key order
FilterItems(loop, filters, i) ==
    IF i > Len(filters) THEN loop
    ELSE FilterItems(FilterItem(loop, filters[i][1], filters[i][2]), filters, i + 1)

RECURSIVE OperatorFilters(_, _, _, _)
\* database.py:203-209: the loop over conditions, which runs once, after the
\* loop over the items, on the column_attr and conditions that loop left
OperatorFilters(stmt, column_attr, conditions, i) ==
    IF i > Len(conditions) THEN Ok(stmt)
    ELSE IF conditions[i].op \notin VALID_OPERATORS THEN Raise("ValueError")
    ELSE OperatorFilters({r \in stmt : ApplyOperator(conditions[i].op, r[column_attr],
                                                     conditions[i].arg)},
                         column_attr, conditions, i + 1)

\* database.py:203-209 after 180-201
AfterItems(loop) == OperatorFilters(loop.stmt, loop.column_attr, loop.conditions, 1)

\* database.py:95-229 with columns, count_only, limit and offset left at
\* their defaults: the rows returned, or the exception raised
query_data(table, filters) ==
    IF filters = <<>> THEN Ok(table)
    ELSE AfterItems(FilterItems([stmt |-> table, column_attr |-> "", conditions |-> <<>>],
                                filters, 1))

\* the items (column, value) of the filter dicts called with: none, one
\* column, two columns in both orders
QueryAmount(i) == <<"amount", AmountFilterPool[i]>>

QueryCategory(j) == <<"category", CategoryFilterPool[j]>>

\* query_data(model, filters=filters) is called on a table holding the rows
QueryData(table, filters) ==
    /\ query.phase = "none"
    /\ query' = [table |-> table, phase |-> "queried", filters |-> filters,
                 call |-> query_data(table, filters)]
    /\ UNCHANGED <<env, db, locals, ctl, mutation, generated, peer>>

QueryNoFilters == \E table \in SUBSET QueryRowPool : QueryData(table, <<>>)

QueryOneColumn ==
    \E table \in SUBSET QueryRowPool :
        \/ \E i \in DOMAIN AmountFilterPool : QueryData(table, <<QueryAmount(i)>>)
        \/ \E j \in DOMAIN CategoryFilterPool : QueryData(table, <<QueryCategory(j)>>)

QueryTwoColumns ==
    \E table \in SUBSET QueryRowPool :
        \E i \in DOMAIN AmountFilterPool, j \in DOMAIN CategoryFilterPool :
            \/ QueryData(table, <<QueryAmount(i), QueryCategory(j)>>)
            \/ QueryData(table, <<QueryCategory(j), QueryAmount(i)>>)

InitQuery == InitOver(WorldEmpty, FALSE)

NextQuery == QueryNoFilters \/ QueryOneColumn \/ QueryTwoColumns

SpecQuery == InitQuery /\ [][NextQuery]_vars

(***************************************************************************)
(* The sync as a running call: sync_google_sheets_data is straight-line     *)
(* code whose loops run over finite lists and whose calls return or raise,  *)
(* so a call that has been entered does not stay at a step for ever         *)
(***************************************************************************)

\* the steps of one call in the order of data_sync.py:211-253
PhaseOrder ==
    <<"Expenses", "Ranges", "Spending", "Totals", "Trips", "TripSpending", "TripTotals",
      "SavePurchases", "SaveTripPurchases", "SaveTrips", "SaveTotals", "SaveTripTotals",
      "Return">>

\* the position of a step in that order, 0 when no call is running
PhaseOf(step) ==
    IF \E k \in DOMAIN PhaseOrder : PhaseOrder[k] = step
    THEN CHOOSE k \in DOMAIN PhaseOrder : PhaseOrder[k] = step
    ELSE 0

\* the running call leaves the step it is at: for the next step, with its
\* result, or with an exception
Advance ==
    /\ PhaseOf(pc) > 0
    /\ pc' \in {PhaseOrder[k] : k \in DOMAIN PhaseOrder} \cup {"Done", "Failed"}
    /\ pc' # pc

\* calls of the sync over the whole year or over January, one after another
NextLive == (\E m \in EditMonthArgs : Call(m)) \/ Steps

SpecLive == Init /\ [][NextLive]_vars /\ WF_pc(Advance)

(***************************************************************************)
(* Claims                                                                  *)
(***************************************************************************)

Ended == pc \in {"Done", "Failed"}

\* the last ended call
Last == log[Len(log)]

\* C1 (as claimed): when a sync that completed is run again with the same
\* arguments over the unchanged source, the second run completes too, yields
\* the same sets of entity ids, and leaves the store as the first run left it.
C1_ResyncIdempotent ==
    \A i \in 1..(Len(log) - 1) :
        (IsOk(log[i].result) /\ log[i + 1].month = log[i].month)
            => /\ IsOk(log[i + 1].result)
               /\ log[i + 1].purchases = log[i].purchases
               /\ log[i + 1].trips = log[i].trips
               /\ log[i + 1].totals = log[i].totals
               /\ log[i + 1].store = log[i].store

\* the batch a save step is about to write, and the table it writes to
BatchAt(step) ==
    IF step = "SavePurchases" THEN [i \in DOMAIN purchases |-> ToPurchases(purchases[i])]
    ELSE IF step = "SaveTripPurchases" THEN [i \in DOMAIN trip_purchases |-> ToPurchases(trip_purchases[i])]
    ELSE IF step = "SaveTrips" THEN [i \in DOMAIN trips |-> ToTrips(trips[i])]
    ELSE IF step = "SaveTotals" THEN [i \in DOMAIN totals |-> ToTotals(totals[i])]
    ELSE [i \in DOMAIN trip_totals |-> ToTotals(trip_totals[i])]

TableAt(step) ==
    IF step \in {"SavePurchases", "SaveTripPurchases"} THEN Purchases
    ELSE IF step = "SaveTrips" THEN Trips
    ELSE Totals

SaveSteps == {"SavePurchases", "SaveTripPurchases", "SaveTrips", "SaveTotals", "SaveTripTotals"}

\* C2: a save whose batch repeats an id, or holds an id already in the target
\* table, raises IntegrityError to the sync and leaves all three tables as they
\* were: no record of the batch is persisted.
C2_SaveRejectsAtomically ==
    [][(pc \in SaveSteps /\ PrimaryKeyConflict(BatchAt(pc), TableAt(pc)))
           => /\ pc' = "Failed"
              /\ result'.err = "IntegrityError"
              /\ UNCHANGED db]_vars

\* C2 witness: a save of purchases hit ids the table already held, raised, and
\* left the table as the previous call had left it
C2_Witness ==
    /\ pc = "Failed"
    /\ Last.at = "SavePurchases"
    /\ result.err = "IntegrityError"
    /\ Ids(purchases) \cap TableIds(Purchases) # {}
    /\ Len(log) = 2
    /\ Purchases = log[1].store.Purchases

\* the counts the end-to-end scenario is to return, its totals range holding n rows
ScenarioCounts(n) ==
    [trips |-> 1, regular_purchases |-> 2, trip_purchases |-> 2, totals |-> n,
     trip_totals |-> Len(trip_totals), total_purchases |-> 4]

\* C3 (as claimed): over the two sheets "Spending 1/24" (three data rows, one a
\* date range) and "Trip Spending 1/24" (two data rows) the sync returns
\* trips = 1, regular_purchases = 2, trip_purchases = 2, total_purchases = 4
\* and totals = the rows of the totals range.
C3_ScenarioCounts ==
    (sheetNames = WorldScenario.names /\ Ended /\ month = None)
        => /\ pc = "Done"
           /\ result.val = ScenarioCounts(Len(grid[S_Spending_1_24].totals) - 1)

\* the month argument is a number outside 1..12
InvalidMonth ==
    /\ month # None
    /\ month[1] # <<>>
    /\ IsDigits(month[1])
    /\ ToInt(month[1]) \notin 1..MonthsInYear

ConstructorCalls == {"authenticate", "get_expense_sheets_info", "get_sheet_names"}

\* C7 (as claimed): a sync called with a month outside 1..12 fails before any
\* call to the external spreadsheet source: no authentication, no spreadsheet
\* lookup, no sheet listing, no range fetch has happened when it fails.
C7_FailsBeforeAnyIO ==
    (InvalidMonth /\ pc = "Failed") => io = {}

\* the "M/YY" suffix of a sheet title, split at "/"; <<>> when the title has none
TitleSuffix(s) ==
    LET words == Split(s, <<" ">>)
        parts == Split(words[Len(words)], <<"/">>)
    IN  IF Len(parts) = 2 /\ IsDigits(parts[1]) /\ IsDigits(parts[2]) THEN parts ELSE <<>>

\* the first day of the month a title "... M/YY" names
FirstOfTitleMonth(suffix) == MkDate(2000 + ToInt(suffix[2]), ToInt(suffix[1]), 1)

\* C4 (as claimed): the totals rows built from the sheet "Spending M/YY" carry
\* the first calendar day of month M of year 20YY, which is the date that
\* extract_date_from_sheet_name returns for the sheet's name.
C4_AnchorIsFirstOfMonth ==
    totals # <<>> =>
        \A j \in DOMAIN totals :
            /\ totals[j].date = FirstOfTitleMonth(TitleSuffix(sheetNames[1]))
            /\ extract_date_from_sheet_name(sheetNames[1]).val = totals[j].date

\* range resolution has returned to the running call
RangesResolved ==
    pc \in {"Spending", "Totals", "Trips", "TripSpending", "TripTotals", "SavePurchases",
            "SaveTripPurchases", "SaveTrips", "SaveTotals", "SaveTripTotals", "Return", "Done"}

\* the sheets the ranges of a list refer to
SheetsOf(rs) == {get_sheet_name_from_range(rs[i]) : i \in DOMAIN rs}

SpendingTargets == SheetsOf(ranges.spending_ranges) \cup SheetsOf(ranges.totals_ranges)

TripTargets == SheetsOf(ranges.trip_spending_ranges) \cup SheetsOf(ranges.trip_totals_ranges)

\* the sheets of the spreadsheet whose title names month m
SheetsOfMonth(m) ==
    {s \in {sheetNames[i] : i \in DOMAIN sheetNames} :
        TitleSuffix(s) # <<>> /\ ToInt(TitleSuffix(s)[1]) = m}

\* C5 (as claimed): a sync called with month m processes the ranges of exactly
\* the sheets of month m; a sheet of another month is not selected, neither by
\* a month number that contains m as a digit nor by its year digits.
C5_OnlyThatMonth ==
    (RangesResolved /\ month # None /\ month[1] # <<>>)
        => SpendingTargets \cup TripTargets = SheetsOfMonth(ToInt(month[1]))

\* C6 (as claimed): of the selected sheets, those whose name contains "Spending"
\* are the spending and totals targets, those whose name contains "Trip" are the
\* trip-spending and trip-totals targets, and no sheet is a target of both groups.
C6_GroupsPartition ==
    RangesResolved =>
        /\ \A s \in SpendingTargets : Contains(T_Spending, s)
        /\ \A s \in TripTargets : Contains(T_Trip, s)
        /\ \A s \in SpendingTargets \cup TripTargets :
               /\ Contains(T_Spending, s) => s \in SpendingTargets
               /\ Contains(T_Trip, s) => s \in TripTargets
        /\ SpendingTargets \cap TripTargets = {}

\* trip inference has returned its Trip records to the running call
TripsInferred ==
    pc \in {"TripSpending", "TripTotals", "SavePurchases", "SaveTripPurchases", "SaveTrips",
            "SaveTotals", "SaveTripTotals", "Return", "Done"}

\* the date-range rows among the extracted spending rows: the input of trip inference
RangeRows == SelectSeq(spending_rows, LAMBDA r : ~r.date.isDate)

\* the (name, start, end) triple of a Trip record
TripleOf(t) == [name |-> t.name, start_date |-> t.start_date, end_date |-> t.end_date]

\* the distinct triples of the date-range rows
RangeTriples == {trip_key(RangeRows[i]).val : i \in DOMAIN RangeRows}

\* C8: process_trip_data returns exactly one Trip per distinct (name, start, end)
\* triple of the date-range rows, however many rows share it; the ids of the
\* returned trips are pairwise distinct; and it returns no trip when no row has
\* a date-range date.
C8_OneTripPerTriple ==
    TripsInferred =>
        /\ \A k \in RangeTriples : Cardinality({i \in DOMAIN trips : TripleOf(trips[i]) = k}) = 1
        /\ \A i \in DOMAIN trips : TripleOf(trips[i]) \in RangeTriples
        /\ \A i, j \in DOMAIN trips : trips[i].id = trips[j].id => i = j
        /\ RangeRows = <<>> => trips = <<>>

\* C8 witness: three date-range rows, two of them sharing a triple, gave two trips
C8_Witness ==
    /\ TripsInferred
    /\ Len(RangeRows) = 3
    /\ Cardinality(RangeTriples) = 2
    /\ Len(trips) = 2

\* the distinct truthy comments of the rows with triple k, in order of first appearance
RECURSIVE FirstAppearance(_, _, _)
FirstAppearance(rows, k, seen) ==
    IF rows = <<>> THEN <<>>
    ELSE IF trip_key(Head(rows)).val = k /\ Truthy(Head(rows).comment)
            /\ Head(rows).comment[1] \notin seen
         THEN <<Head(rows).comment[1]>>
              \o FirstAppearance(Tail(rows), k, seen \cup {Head(rows).comment[1]})
         ELSE FirstAppearance(Tail(rows), k, seen)

CommentInOrder(cs) == IF cs = <<>> THEN None ELSE Some(Join(cs, <<" ", "|", " ">>))

\* C9 (as claimed): the comment of an inferred trip is the distinct non-null
\* comments of the rows of its group in order of first appearance, joined with
\* " | ", and null when no row of the group has a comment.
C9_CommentsInFirstAppearanceOrder ==
    TripsInferred =>
        \A i \in DOMAIN trips :
            trips[i].comment = CommentInOrder(FirstAppearance(RangeRows, TripleOf(trips[i]), {}))

\* the month sheet holds the given data rows
SheetRows(rows) == grid[S_Spending_6_24].spending = <<SpendingHeader>> \o rows

\* the Trip "Hawaii", 2024-06-01 to 2024-06-05, comment "fun"
HawaiiTrip ==
    [id         |-> generate_trip_id(<<"H", "a", "w", "a", "i", "i">>, MkDate(2024, 6, 1), MkDate(2024, 6, 5)),
     name       |-> <<"H", "a", "w", "a", "i", "i">>,
     start_date |-> MkDate(2024, 6, 1),
     end_date   |-> MkDate(2024, 6, 5),
     comment    |-> Some(<<"f", "u", "n">>)]

\* C10 (as claimed): the single row with date field "Hawaii 6/1/24-6/5/24",
\* description "Hawaii Trip" and comment "fun" yields, without raising, exactly
\* the one Trip "Hawaii" from 2024-06-01 to 2024-06-05 with comment "fun".
C10_NamedDateFieldYieldsTrip ==
    (SheetRows(<<R_HawaiiNamed>>) /\ (TripsInferred \/ pc = "Failed"))
        => /\ pc # "Failed"
           /\ trips = <<HawaiiTrip>>

\* C10 (amended): the single row with date field "6/1/24-6/5/24", description
\* "Hawaii Trip" and comment "fun" yields, without raising, exactly the one Trip
\* "Hawaii" from 2024-06-01 to 2024-06-05 with comment "fun", which the sync
\* stores; with the date field "Hawaii 6/1/24-6/5/24" trip inference raises
\* ValueError and no Trip is yielded or stored.
C10_RangeDateFieldYieldsTrip ==
    /\ (SheetRows(<<R_HawaiiRange>>) /\ (TripsInferred \/ pc = "Failed"))
           => /\ pc # "Failed"
              /\ trips = <<HawaiiTrip>>
              /\ pc = "Done" => Trips = {ToTrips(HawaiiTrip)}
    /\ SheetRows(<<R_HawaiiNamed>>)
           => /\ ~TripsInferred
              /\ trips = <<>> /\ Trips = {}
              /\ pc = "Failed" => (result.err = "ValueError" /\ Last.at = "Trips")

\* C10 witness: the sync over the single row "6/1/24-6/5/24" has returned with its one trip
C10_Witness ==
    /\ SheetRows(<<R_HawaiiRange>>)
    /\ pc = "Done"
    /\ Len(trips) = 1
    /\ trips[1].name = <<"H", "a", "w", "a", "i", "i">>
    /\ result.val.trips = 1

\* trip-purchase linking has returned its rows to the running call
TripSpendingDone ==
    pc \in {"TripTotals", "SavePurchases", "SaveTripPurchases", "SaveTrips", "SaveTotals",
            "SaveTripTotals", "Return", "Done"}

\* the positions of the inferred trips of the given name whose interval holds date d
TripsHolding(name, d) ==
    {j \in DOMAIN trips : /\ trips[j].name = name
                          /\ DateLE(trips[j].start_date, d)
                          /\ DateLE(d, trips[j].end_date)}

\* the id of the first of the given positions, null when there is none
FirstTripId(hits) ==
    IF hits = {} THEN None ELSE Some(trips[CHOOSE j \in hits : \A k \in hits : j <= k].id)

\* the data rows of the sheets of the trip-spending ranges
TripSheetRows ==
    {<<s, k>> \in SheetsOf(ranges.trip_spending_ranges) \X (1..MaxLinkRows + 1) :
        k < Len(grid[s].spending)}

\* C11: every row of a trip-spending range becomes a purchase whose trip_id is
\* the id of the first inferred trip, in inference order, whose name is the
\* first space-delimited token of the sheet name and whose interval holds the
\* row's date, and null exactly when there is no such trip; a row without a
\* match does not make trip-purchase linking raise.
C11_LinksFirstHoldingTrip ==
    /\ TripSpendingDone =>
           /\ Len(trip_purchases) = Cardinality(TripSheetRows)
           /\ \A i \in DOMAIN trip_purchases :
                  trip_purchases[i].trip_id =
                      FirstTripId(TripsHolding(Split(trip_purchases[i].id, <<" ">>)[1],
                                               trip_purchases[i].date.date))
    /\ pc = "Failed" => Last.at # "TripSpending"

\* C11 witness: two trips of Hawaii both hold the date of a row, which links to
\* the first of them, while another row of the sheet links to no trip
C11_Witness ==
    /\ pc = "Done"
    /\ Len(trips) = 2
    /\ \E i, j \in DOMAIN trip_purchases :
           /\ trip_purchases[i].trip_id = Some(trips[1].id)
           /\ Cardinality(TripsHolding(<<"H", "a", "w", "a", "i", "i">>, trip_purchases[i].date.date)) = 2
           /\ trip_purchases[j].trip_id = None
           /\ trip_purchases[j].date.date = MkDate(2024, 7, 1)

\* trip-totals extraction has returned its rows to the running call
TripTotalsDone ==
    pc \in {"SavePurchases", "SaveTripPurchases", "SaveTrips", "SaveTotals", "SaveTripTotals",
            "Return", "Done"}

\* the trip-totals sheets whose first token names an inferred trip, and the others
FoundTripSheets ==
    {s \in SheetsOf(ranges.trip_totals_ranges) :
        \E j \in DOMAIN trips : trips[j].name = Split(s, <<" ">>)[1]}

MissedTripSheets == SheetsOf(ranges.trip_totals_ranges) \ FoundTripSheets

\* the data rows of the totals blocks of the found sheets (F2:G8 holds 6 below its header)
FoundTripTotalsRows ==
    {<<s, k>> \in FoundTripSheets \X (1..6) : k < Len(grid[s].totals)}

\* C12: a trip-totals sheet whose name matches no inferred trip yields no total
\* row and does not make the extraction raise; the other trip-totals ranges are
\* still processed, each of their rows giving a total row of its trip; and the
\* sync then completes with its collections stored (it fails only where the
\* store rejects a trip purchase whose trip is not stored yet).
C12_TripTotalsMissIsSkipped ==
    /\ TripTotalsDone =>
           /\ Len(trip_totals) = Cardinality(FoundTripTotalsRows)
           /\ \A i \in DOMAIN trip_totals :
                  /\ Split(trip_totals[i].id, <<"_">>)[1] \in FoundTripSheets
                  /\ trip_totals[i].trip \in {Some(trips[j].id) : j \in DOMAIN trips}
    /\ pc = "Failed" =>
           /\ Last.at = "SaveTripPurchases"
           /\ fkEnforced
           /\ \E i \in DOMAIN trip_purchases : trip_purchases[i].trip_id # None
    /\ pc = "Done" =>
           /\ Ids(purchases) \cup Ids(trip_purchases) \subseteq TableIds(Purchases)
           /\ Ids(trips) \subseteq TableIds(Trips)
           /\ Ids(totals) \cup Ids(trip_totals) \subseteq TableIds(Totals)

\* C12 witness: the sheet of Paris, listed first, matched no trip and the sync
\* has returned with the two total rows of the sheet of Hawaii
C12_Witness ==
    /\ pc = "Done"
    /\ MissedTripSheets = {S_ParisTrip_6_24}
    /\ FoundTripSheets = {S_HawaiiTrip_6_24}
    /\ get_sheet_name_from_range(ranges.trip_totals_ranges[1]) = S_ParisTrip_6_24
    /\ Len(trip_totals) = 2
    /\ result.val.trip_totals = 2

\* the ranges resolved for the running call, and those whose fetch yields no rows
AllRanges ==
    {ranges.spending_ranges[i] : i \in DOMAIN ranges.spending_ranges}
        \cup {ranges.totals_ranges[i] : i \in DOMAIN ranges.totals_ranges}
        \cup {ranges.trip_spending_ranges[i] : i \in DOMAIN ranges.trip_spending_ranges}
        \cup {ranges.trip_totals_ranges[i] : i \in DOMAIN ranges.trip_totals_ranges}

EmptyRanges == {r \in AllRanges : FetchValues(grid, r).val = <<>>}

\* C13 (as claimed): when the fetch of a range yields no rows the range
\* contributes no record and the sync continues to completion; a sync over a
\* source with such a range does not raise.
C13_EmptyRangeIsNoError ==
    (EmptyRanges # {} /\ Ended) => pc = "Done"

\* C14: when authentication, the spreadsheet lookup, the listing of the sheet
\* names or a range fetch fails, the sync raises: no call over a failing source
\* ends by returning counts.  The failing call has been made when it is in io.
FaultCall == IF fault = "no_spreadsheet" THEN "get_expense_sheets_info" ELSE fault

C14_SourceErrorFailsSync == (FaultCall \in io /\ Ended) => pc = "Failed"
\* a date cell is unparseable when a "-"-separated part of it (the whole cell
\* when it has no "-") is no date
UnparseableDate(c) ==
    \E i \in DOMAIN Split(c, <<"-">>) : ~IsOk(parse_date(Split(c, <<"-">>)[i]))

UnparseableAmount(c) == ~IsOk(parse_amount(c))

UnparseablePercentage(c) == ~IsOk(parse_percentage(c))

\* the rows below the header that the ranges of a list fetch
FetchedRows(rs) ==
    UNION {{data_rows(grid, rs[i]).val[k] : k \in DOMAIN data_rows(grid, rs[i]).val} :
           i \in DOMAIN rs}

\* the trip-totals ranges that are fetched: those whose trip has been found
FetchedTripTotalsRanges ==
    SelectSeq(ranges.trip_totals_ranges,
              LAMBDA r : get_sheet_name_from_range(r) \in FoundTripSheets)

\* some fetched row has a date, an amount or a percentage that does not parse
SomeUnparseable ==
    \/ \E d \in FetchedRows(ranges.spending_ranges) :
           UnparseableDate(d[1]) \/ UnparseableAmount(d[2])
    \/ \E d \in FetchedRows(ranges.totals_ranges) :
           UnparseableAmount(d[2]) \/ UnparseablePercentage(d[3]) \/ UnparseableAmount(d[4])
    \/ \E d \in FetchedRows(ranges.trip_spending_ranges) :
           UnparseableDate(d[1]) \/ UnparseableAmount(d[2])
    \/ \E d \in FetchedRows(FetchedTripTotalsRanges) : UnparseableAmount(d[2])

ExtractionSteps == {"Spending", "Totals", "Trips", "TripSpending", "TripTotals"}

StoreEmpty == Purchases = {} /\ Trips = {} /\ Totals = {}

\* C15: when a fetched row below the header of any range has a date, an amount
\* or a percentage that does not parse, the sync raises ValueError at an
\* extraction or linking step, before the first of its five saves: it does not
\* complete with the row left out, and the store is as it was (empty).
C15_ParseErrorStopsBeforeSaves ==
    (Ended /\ SomeUnparseable) =>
        /\ pc = "Failed"
        /\ result.err = "ValueError"
        /\ Last.at \in ExtractionSteps
        /\ StoreEmpty

\* a sync over a source whose only malformed cell is the amount of a
\* trip-totals row has failed at the last extraction step
C15_Witness ==
    /\ Ended
    /\ SomeUnparseable
    /\ Last.at = "TripTotals"
    /\ grid[S_Spending_6_24].spending[2] = R_HawaiiRange
\* the mutation has returned a SyncResult for the sync it called
MutationReturned == mutation.phase = "returned"

\* C16: the mutation does not raise what the sync entry point raises.  When the
\* sync it called has raised, the mutation returns success = false, every count
\* 0 and the message "Error syncing data: " followed by the text of that
\* exception; when the sync has returned, it returns success = true with the
\* counts the sync returned.  A call of the mutation that raises has not called
\* the sync.
C16_MutationReportsOutcome ==
    /\ (MutationReturned /\ pc = "Failed") =>
            mutation.response[1] =
                [trips |-> 0, regular_purchases |-> 0, trip_purchases |-> 0,
                 total_purchases |-> 0, success |-> FALSE,
                 message |-> <<"E", "r", "r", "o", "r", " ", "s", "y", "n", "c", "i", "n", "g", " ", "d", "a", "t", "a", ":", " ">> \o <<result.err>>]
    /\ (MutationReturned /\ pc = "Done") =>
            /\ mutation.response[1].success
            /\ mutation.response[1].trips = result.val.trips
            /\ mutation.response[1].regular_purchases = result.val.regular_purchases
            /\ mutation.response[1].trip_purchases = result.val.trip_purchases
            /\ mutation.response[1].total_purchases = result.val.total_purchases
    /\ (mutation.phase = "raised") => (mutation.calls = 0)

\* the mutation has returned after a fetch of the sync it called raised HttpError
C16_Witness ==
    /\ MutationReturned
    /\ pc = "Failed"
    /\ result.err = "HttpError"
    /\ "get_data" \in io
    /\ ~mutation.response[1].success
\* the success message for a sync of year y, of month m of it when m is given
SuccessMessage(y, m) ==
    IF m = None THEN <<"S", "u", "c", "c", "e", "s", "s", "f", "u", "l", "l", "y", " ", "s", "y", "n", "c", "e", "d", " ", "d", "a", "t", "a", " ", "f", "o", "r", " ", "y", "e", "a", "r", " ">> \o y
    ELSE <<"S", "u", "c", "c", "e", "s", "s", "f", "u", "l", "l", "y", " ", "s", "y", "n", "c", "e", "d", " ", "d", "a", "t", "a", " ", "f", "o", "r", " ">> \o m[1] \o <<"/">> \o y

\* C17 (as claimed): a call of the mutation with a year and an optional month
\* calls the sync entry point exactly once, with that year and that month (None
\* when the month is omitted), and its success message names "MM/YYYY" when a
\* month was given and "year YYYY" otherwise.
C17_MutationForwardsMonth ==
    (mutation.phase # "none") =>
        /\ mutation.phase \in {"running", "returned"}
        /\ mutation.calls = 1
        /\ month = mutation.month
        /\ (MutationReturned /\ pc = "Done") =>
               mutation.response[1].message = SuccessMessage(mutation.year, mutation.month)
\* the keys the filter dict is to have for the filters of the last query: one
\* for each supplied field (the two dates share "date", the two amounts "amount")
ExpectedKeys(f) ==
    {k \in {"category", "description", "trip_id", "date", "amount"} :
        \/ k = "category" /\ GivenList(f.categories)
        \/ k = "description" /\ GivenList(f.descriptions)
        \/ k = "trip_id" /\ GivenText(f.trip)
        \/ k = "date" /\ (f.start_date # None \/ f.end_date # None)
        \/ k = "amount" /\ (f.min_amount # None \/ f.max_amount # None)}

\* the one- or two-sided form of a pair of optional bounds
Sided(lo, hi) ==
    IF lo # None /\ hi # None
    THEN <<[op |-> ">=", arg |-> lo[1]], [op |-> "<=", arg |-> hi[1]]>>
    ELSE IF lo # None THEN [op |-> ">=", arg |-> lo[1]]
    ELSE [op |-> "<=", arg |-> hi[1]]

\* the value the filter dict is to have at key k
ExpectedValue(f, k) ==
    IF k = "category" THEN f.categories[1]
    ELSE IF k = "description" THEN f.descriptions[1]
    ELSE IF k = "trip_id" THEN f.trip[1]
    ELSE IF k = "date" THEN Sided(f.start_date, f.end_date)
    ELSE Sided(f.min_amount, f.max_amount)

\* C18 (as claimed): the filter dict Query.purchases passes to query_data has a
\* key for exactly the supplied filter fields (categories -> category,
\* descriptions -> description, the trip -> trip_id, the dates -> date, the
\* amounts -> amount), each with the value of its form, and is empty when no
\* filters are given.
C18_FilterDictHasSuppliedKeys ==
    (query.phase = "called") =>
        /\ IsOk(query.call)
        /\ IF query.filters = None THEN DOMAIN query.call.val = {}
           ELSE /\ DOMAIN query.call.val = ExpectedKeys(query.filters[1])
                /\ \A k \in DOMAIN query.call.val :
                       query.call.val[k] = ExpectedValue(query.filters[1], k)
\* the store as the call before the last ended one left it: empty before any call
StoreBefore ==
    IF Len(log) > 1 THEN log[Len(log) - 1].store
    ELSE [Purchases |-> {}, Trips |-> {}, Totals |-> {}]

\* C19: when a sync has returned its result, all five collections are in the
\* store; each returned count is the number of records of its collection, the
\* records the sync added to each table are as many as the counts of the
\* collections saved to it, and total_purchases = regular_purchases +
\* trip_purchases.
C19_ResultCountsWhatWasSaved ==
    (pc = "Done") =>
        /\ Ids(purchases) \cup Ids(trip_purchases) \subseteq TableIds(Purchases)
        /\ Ids(trips) \subseteq TableIds(Trips)
        /\ Ids(totals) \cup Ids(trip_totals) \subseteq TableIds(Totals)
        /\ result.val.regular_purchases = Cardinality(Ids(purchases))
        /\ result.val.trip_purchases = Cardinality(Ids(trip_purchases))
        /\ result.val.trips = Cardinality(Ids(trips))
        /\ result.val.totals = Cardinality(Ids(totals))
        /\ result.val.trip_totals = Cardinality(Ids(trip_totals))
        /\ Cardinality(Purchases) - Cardinality(StoreBefore.Purchases)
               = result.val.regular_purchases + result.val.trip_purchases
        /\ Cardinality(Trips) - Cardinality(StoreBefore.Trips) = result.val.trips
        /\ Cardinality(Totals) - Cardinality(StoreBefore.Totals)
               = result.val.totals + result.val.trip_totals
        /\ result.val.total_purchases
               = result.val.regular_purchases + result.val.trip_purchases

\* a sync has returned after saving records of each of the five collections
C19_Witness ==
    /\ pc = "Done"
    /\ result.val.regular_purchases > 0
    /\ result.val.trip_purchases > 0
    /\ result.val.trips > 0
    /\ result.val.totals > 0
    /\ result.val.trip_totals > 0
    /\ Cardinality(Purchases) = result.val.total_purchases
\* the arguments of a recorded call: the call without the id it returned
PurchaseKey(g) == <<g.sheet_name, g.row_index>>

TripKey(g) == <<g.name, g.start_date, g.end_date>>

TotalKey(g) == <<g.sheet_name, g.total_type, g.trip_name>>

\* C20 (as claimed): each id generator returns equal ids for equal natural-key
\* inputs and different ids for any two differing natural-key inputs, a total
\* with a trip name and a total without one included.
C20_IdsIdentifyTheirInputs ==
    /\ \A g, h \in generated.purchase : (g.id = h.id) <=> (PurchaseKey(g) = PurchaseKey(h))
    /\ \A g, h \in generated.trip : (g.id = h.id) <=> (TripKey(g) = TripKey(h))
    /\ \A g, h \in generated.total : (g.id = h.id) <=> (TotalKey(g) = TotalKey(h))
\* C21: every trip that trip inference has produced, and every trip in the
\* store, has start_date <= end_date.
C21_TripIntervalOrdered ==
    /\ \A j \in DOMAIN trips : DateLE(trips[j].start_date, trips[j].end_date)
    /\ \A t \in Trips : DateLE(t.start_date, t.end_date)
\* the regular-spending rows have been extracted and split
SpendingDone ==
    \/ pc \in {"Totals", "Trips", "TripSpending", "TripTotals", "SavePurchases",
                "SaveTripPurchases", "SaveTrips", "SaveTotals", "SaveTripTotals", "Return", "Done"}
    \/ pc = "Failed" /\ Last.at \notin {"Expenses", "Ranges", "Spending"}

\* the data rows of the month sheet of June, and the positions of those whose
\* date field contains "-"
JuneRows == Tail(grid[S_Spending_6_24].spending)

DashRows == {k \in DOMAIN JuneRows : Contains(<<"-">>, JuneRows[k][1])}

\* the ids of the data rows at the given positions
JuneIds(ks) == {generate_purchase_id(S_Spending_6_24, k - 1) : k \in ks}

\* C22: every extracted regular-spending row is either a concrete-date row
\* (date field without "-", its date parsed) or a trip-source row (date field
\* with "-", kept as text), never both; the concrete-date rows, and only they,
\* are the purchases passed to the Purchases save, so every stored purchase
\* comes from a row whose date field has no "-".
C22_OnlyConcreteDatesArePurchases ==
    SpendingDone =>
        /\ Len(spending_rows) = Len(JuneRows)
        /\ \A k \in DOMAIN spending_rows : spending_rows[k].date.isDate <=> k \notin DashRows
        /\ Ids(purchases) = JuneIds(DOMAIN JuneRows \ DashRows)
        /\ \A k \in DOMAIN purchases : purchases[k].date.isDate
        /\ TableIds(Purchases) \subseteq JuneIds(DOMAIN JuneRows \ DashRows)

\* a sync over a sheet with a date-range row and a dated row has stored its purchases
C22_Witness ==
    /\ pc = "Done"
    /\ DashRows # {}
    /\ DOMAIN JuneRows \ DashRows # {}
    /\ Purchases # {}
\* C23 (as claimed): in every state of the store, during and after a sync and
\* after a sync that failed part-way, every stored purchase with a trip_id and
\* every stored total with a trip refers to a stored trip.
C23_TripReferencesResolve ==
    /\ \A p \in Purchases : p.trip_id # None => p.trip_id[1] \in TableIds(Trips)
    /\ \A t \in Totals : t.trip # None => t.trip[1] \in TableIds(Trips)
\* the store when the running or the last ended call began
StoreAtStart ==
    IF Ended THEN StoreBefore
    ELSE IF Len(log) > 0 THEN Last.store
    ELSE [Purchases |-> {}, Trips |-> {}, Totals |-> {}]

\* the five saves in the order of data_sync.py:236-241
SaveOrder == <<"SavePurchases", "SaveTripPurchases", "SaveTrips", "SaveTotals", "SaveTripTotals">>

\* the records of the first n saves that go to the given table
SavedTo(table, n) ==
    UNION {{BatchAt(SaveOrder[k])[i] : i \in DOMAIN BatchAt(SaveOrder[k])} :
           k \in {j \in 1..n : (table = "Purchases" /\ j \in {1, 2})
                                    \/ (table = "Trips" /\ j = 3)
                                    \/ (table = "Totals" /\ j \in {4, 5})}}

\* the store holds what it held when the call began and the batches of the
\* first n saves, and nothing else
HoldsFirstSaves(n) ==
    /\ Purchases = StoreAtStart.Purchases \cup SavedTo("Purchases", n)
    /\ Trips = StoreAtStart.Trips \cup SavedTo("Trips", n)
    /\ Totals = StoreAtStart.Totals \cup SavedTo("Totals", n)

\* the position of a save step in the order
SavePosition(step) == CHOOSE k \in DOMAIN SaveOrder : SaveOrder[k] = step

\* C24: the five saves run in the order purchases, trip purchases, trips,
\* totals, trip totals, each committed on its own: when the k-th save is about
\* to run, the store holds exactly what it held at the start of the sync and
\* the batches of saves 1..k-1; and when the k-th save has failed, the sync has
\* raised IntegrityError and the store still holds exactly that: the earlier
\* batches remain, the failing batch and the later collections were not written.
C24_NoRollbackAcrossSaves ==
    /\ pc \in SaveSteps => HoldsFirstSaves(SavePosition(pc) - 1)
    /\ (pc = "Failed" /\ Last.at \in SaveSteps) =>
           /\ result.err = "IntegrityError"
           /\ HoldsFirstSaves(SavePosition(Last.at) - 1)

\* the save of the trip purchases has failed and the purchases saved before it remain
C24_Witness ==
    /\ pc = "Failed"
    /\ Last.at = "SaveTripPurchases"
    /\ purchases # <<>>
    /\ trip_purchases # <<>>
    /\ Ids(purchases) \subseteq TableIds(Purchases)
    /\ Ids(trip_purchases) \cap TableIds(Purchases) = {}
\* a table holds no two rows with the same id
NoRepeatedIds(table) == \A r1, r2 \in table : r1.id = r2.id => r1 = r2

\* the records of the first invocation, as a record like that of the second
OwnRecords ==
    [purchases |-> purchases, trip_purchases |-> trip_purchases, trips |-> trips,
     totals |-> totals, trip_totals |-> trip_totals]

\* the five batches of an invocation with records L, in the order of its saves
BatchesOf(L) ==
    <<[i \in DOMAIN L.purchases |-> ToPurchases(L.purchases[i])],
      [i \in DOMAIN L.trip_purchases |-> ToPurchases(L.trip_purchases[i])],
      [i \in DOMAIN L.trips |-> ToTrips(L.trips[i])],
      [i \in DOMAIN L.totals |-> ToTotals(L.totals[i])],
      [i \in DOMAIN L.trip_totals |-> ToTotals(L.trip_totals[i])]>>

\* the rows that the batches at positions ks of bs hold
RowsOf(bs, ks) == UNION {{bs[k][i] : i \in DOMAIN bs[k]} : k \in ks}

\* the store after the first n of the batches bs were saved to an empty store
StoreOfFirst(bs, n) ==
    [Purchases |-> RowsOf(bs, (1..n) \cap {1, 2}),
     Trips     |-> RowsOf(bs, (1..n) \cap {3}),
     Totals    |-> RowsOf(bs, (1..n) \cap {4, 5})]

\* the table of a store that the k-th save writes to
TableOf(store, k) ==
    IF k \in {1, 2} THEN store.Purchases ELSE IF k = 3 THEN store.Trips ELSE store.Totals

\* the k-th batch is rejected by the store that the batches before it made:
\* an id repeated or already there, or a trip reference the engine rejects
RejectedAlone(bs, k) ==
    \/ PrimaryKeyConflict(bs[k], TableOf(StoreOfFirst(bs, k - 1), k))
    \/ /\ fkEnforced
       /\ k \in {1, 2}
       /\ \E i \in DOMAIN bs[k] : bs[k][i].trip_id # None

\* the store one invocation alone leaves on an empty store: the batches before
\* its first rejected one
AloneStore(bs) ==
    StoreOfFirst(bs, CHOOSE n \in 0..5 : /\ \A k \in 1..n : ~RejectedAlone(bs, k)
                                         /\ n < 5 => RejectedAlone(bs, n + 1))

TheStore == [Purchases |-> Purchases, Trips |-> Trips, Totals |-> Totals]

BothEnded == Ended /\ peer.pc \in {"Done", "Failed"}

\* C25: while the saves of two overlapping syncs over the same source
\* interleave, no table ever holds two rows with the same id; and when both
\* syncs have ended, the store holds exactly what one of them alone would have
\* persisted on the empty store.
C25_OverlappingSyncsConverge ==
    /\ NoRepeatedIds(Purchases)
    /\ NoRepeatedIds(Trips)
    /\ NoRepeatedIds(Totals)
    /\ BothEnded => TheStore \in {AloneStore(BatchesOf(OwnRecords)), AloneStore(BatchesOf(peer))}

\* both syncs have ended, the second one having saved the trips with its own
\* order of the comments after the first had saved the purchases
C25_Witness ==
    /\ BothEnded
    /\ peer.trips # trips
    /\ Purchases # {}
    /\ Trips # {}
    /\ pc = "Failed" \/ peer.pc = "Failed"
\* C26: no step of any sync, successful or failed, over the unchanged or an
\* edited source, removes a stored record or changes a field of one: every
\* record in a table before the step is in it, with the same field values,
\* after the step.
C26_StoredRecordsStay ==
    [][/\ Purchases \subseteq Purchases'
       /\ Trips \subseteq Trips'
       /\ Totals \subseteq Totals']_vars

\* a second sync, over an edited source, has extracted a purchase that has the
\* id of a stored purchase and other field values, and has ended
C26_Witness ==
    /\ Len(log) = 2
    /\ Ended
    /\ IsOk(log[1].result)
    /\ \E i \in DOMAIN purchases : \E p \in Purchases :
           ToPurchases(purchases[i]).id = p.id /\ ToPurchases(purchases[i]) # p
\* the operators a filter value names
OperatorsOf(value) ==
    IF "ops" \in DOMAIN value THEN {value.ops[k].op : k \in DOMAIN value.ops} ELSE {}

\* the row passes the filter given for the column
Satisfies(row, column, value) ==
    IF "ops" \in DOMAIN value
    THEN \A k \in DOMAIN value.ops :
             ApplyOperator(value.ops[k].op, row[column], value.ops[k].arg)
    ELSE IF "isin" \in DOMAIN value THEN row[column] \in value.isin
    ELSE row[column] = value.eq

\* the rows passing every filter of every column, or ValueError when some
\* filter names an operator that is not valid
Conjunction(table, filters) ==
    IF \E i \in DOMAIN filters : ~(OperatorsOf(filters[i][2]) \subseteq VALID_OPERATORS)
    THEN Raise("ValueError")
    ELSE Ok({r \in table :
                \A i \in DOMAIN filters : Satisfies(r, filters[i][1], filters[i][2])})

\* C27: query_data returns exactly the rows that satisfy every filter of every
\* column of the dict (equality, IN list, one operator or a two-sided list),
\* whatever the order of the keys, and raises ValueError when any filter
\* names an operator outside >, <, >=, <=, ==, !=.
C27_QueryAppliesEveryFilter ==
    query.phase = "queried" => query.call = Conjunction(query.table, query.filters)
\* a step of the call moves to the next phase, ends the call with its
\* result, or ends it with the exception raised
InOrder ==
    pc' # pc =>
        \/ PhaseOf(pc) = 0 /\ pc' = "Expenses"
        \/ PhaseOf(pc) > 0 /\ PhaseOf(pc') = PhaseOf(pc) + 1
        \/ pc = "Return" /\ pc' = "Done" /\ IsOk(result')
        \/ PhaseOf(pc) > 0 /\ pc' = "Failed" /\ ~IsOk(result')

\* the trips the linking steps read are those inferred from the rows extracted
LinkingReadsInferredTrips ==
    pc \in {"TripSpending", "TripTotals"} => Ok(trips) \in process_trip_data(spending_rows)

\* nothing is saved before the linking steps are over
NothingSavedYet ==
    (PhaseOf(pc) > 0 /\ PhaseOf(pc) <= PhaseOf("SavePurchases")) =>
        StoreAtStart = [Purchases |-> Purchases, Trips |-> Trips, Totals |-> Totals]

\* C28: every call of the sync passes through its phases in the order resolve
\* ranges, extract regular spending (and totals), infer trips, link trip
\* purchases, link trip totals, persist: each step moves to the next phase or
\* fails, the trips read by the two linking steps are those inferred from the
\* extracted rows, the store is untouched until the linking steps are over,
\* and every call that was entered ends, in Done with a result or in Failed
\* with an exception.
C28_PhasesInOrderAndEnding ==
    /\ [][InOrder]_vars
    /\ [](LinkingReadsInferredTrips /\ NothingSavedYet)
    /\ \A n \in 0..(MaxRuns - 1) : (pc = "Expenses" /\ runs = n) ~> (Ended /\ runs = n + 1)

\* a call over a source with a trip has linked its purchases and ended in Done
C28_Witness ==
    /\ pc = "Done"
    /\ IsOk(result)
    /\ trips # <<>>
    /\ trip_purchases # <<>>
\* both purchase collections of the running or ended call have been extracted
PurchasesExtracted == PhaseOf(pc) > PhaseOf("TripSpending") \/ pc = "Done"

\* C29: within one sync no two purchase records share an id, neither inside
\* the regular purchases, nor inside the trip purchases, nor across the two,
\* so the second save to Purchases of a sync over an empty store never
\* collides with the first.
C29_PurchaseIdsUniqueInSync ==
    /\ PurchasesExtracted =>
           /\ Cardinality(Ids(purchases)) = Len(purchases)
           /\ Cardinality(Ids(trip_purchases)) = Len(trip_purchases)
           /\ Ids(purchases) \cap Ids(trip_purchases) = {}
    /\ (pc = "Failed" /\ Len(log) = 1 /\ ~fkEnforced) => Last.at # "SaveTripPurchases"
\* the sheet a purchase or total record was read from: the text of its id
\* before the first "_" (no sheet title of this specification holds one)
SheetOfId(id) == Split(id, <<"_">>)[1]

\* C30: within one sync every linked purchase of a trip sheet and every total
\* row of the same sheet reference the same Trip, also when several inferred
\* trips have the name derived from the sheet's title.
C30_OneTripPerTripSheet ==
    TripTotalsDone =>
        \A i \in DOMAIN trip_purchases, j \in DOMAIN trip_totals :
            (/\ trip_purchases[i].trip_id # None
             /\ SheetOfId(trip_purchases[i].id) = SheetOfId(trip_totals[j].id))
                => trip_purchases[i].trip_id = trip_totals[j].trip
====
